---------------------------- MODULE Spec2Model ----------------------------
(***************************************************************************)
(* Business-viability calculation pipeline of the Etsy planning agents.    *)
(*                                                                         *)
(* The engines (etsyFeesCalculator, calculateMaterialCosts,                *)
(* analyzeBusinessCosts, estimateSalesVolume, suggestAdvertisingPlatforms, *)
(* generateBusinessPlan) are modelled as operators computed the way the    *)
(* TypeScript computes them; the tool dispatch of the agents is the state  *)
(* machine: `call` is the tool call being served and `result` the value    *)
(* the tool returned for it.                                               *)
(*                                                                         *)
(* Numbers.  The source works on IEEE doubles holding dollar amounts.  The *)
(* model works on exact fixed-point integers:                              *)
(*   - amounts of the cost pipeline are counted in 24ths of a cent         *)
(*     (Cent = 24 units), so that amount / 12 is exact for whole cents     *)
(*     and so are the fees of the suggested price 32.75 (3.56125);         *)
(*   - the fee calculator takes the item price in cents and returns fees   *)
(*     in thousandths of a cent, so that price * 0.065 is exact;           *)
(*   - Math.round(x * 100) / 100 becomes RoundDiv, rounding half up.       *)
(* Binary floating-point representation error is not modelled.             *)
(***************************************************************************)
EXTENDS Integers, Sequences, FiniteSets, TLC

VARIABLES
    call,      \* the tool call being served: [name, path, args]
    result,    \* the value the tool returned for `call`
    pc,        \* "called", "returned", or the position of
               \* generateBusinessPlan in its body
    frame,     \* the locals of the running generateBusinessPlan
    invoked,   \* the engines generateBusinessPlan has invoked, in order
    files,     \* the files of the data directory: file name -> content
    served,    \* the tool calls served so far, each with the value returned
    messages   \* the message history of 01-function-calling.ts

vars == <<call, result, pc, frame, invoked, files, served, messages>>

-----------------------------------------------------------------------------
(* Arithmetic helpers *)

\* Math.round(n / d) for d > 0: JavaScript rounds half towards +Infinity.
RoundDiv(n, d) == (2 * n + d) \div (2 * d)

\* Math.ceil(n / d) for d > 0.
CeilDiv(n, d) == -((-n) \div d)

Abs(x) == IF x < 0 THEN -x ELSE x

\* An optional field: <<>> when absent (undefined / null), <<v>> when present.
None == <<>>
Some(v) == <<v>>

\* x || 0 on an optional number.
OrZero(x) == IF x = None THEN 0 ELSE x[1]

RECURSIVE SumSeq(_)
SumSeq(s) == IF s = <<>> THEN 0 ELSE s[1] + SumSeq(Tail(s))

\* The state of the dispatcher before the first tool call.
NoCall == [name |-> "none", path |-> "none", args |-> <<>>]
NoResult == [none |-> TRUE]

\* The data directory with no file in it.
NoFiles == <<>>

\* const messages = [{ role: "system", content: systemPrompt }]
InitialMessages == <<[role |-> "system"]>>

\* What is kept of a served tool call: the function name, the program that
\* dispatched it, the parsed arguments and the value the function returned.
ToolMessage(toolCall, value) ==
    [name |-> toolCall.name, path |-> toolCall.path, args |-> toolCall.args,
     result |-> value]

-----------------------------------------------------------------------------
(* FeeCalculator: lib/util.ts etsyFeesCalculator *)

\* Units: itemPrice in cents; fees in thousandths of a cent, the unit in
\* which the three-decimal rates (0.065) are whole numbers.
MilliPerCent == 1000

ListingFeeCents == 20             \* listingFee = 0.2
TransactionFeeRate == 65          \* 0.065, per mille
PaymentProcessingFeeRate == 30    \* 0.03, per mille
PaymentProcessingFixedCents == 25 \* 0.25
OffsiteAdsRate == 120             \* 0.12, per mille

\* offsiteAds === true ? 0.12 : 0, with a truthiness test instead of ===
OffsiteAdsFeeRateTruthy(offsiteAds) ==
    IF offsiteAds \in {"true", "truthy"} THEN OffsiteAdsRate ELSE 0

\* offsiteAds === true ? 0.12 : 0
OffsiteAdsFeeRate(offsiteAds) ==
    IF offsiteAds = "true" THEN OffsiteAdsRate ELSE 0

\* transactionFee = itemPrice * rate, with the fixed amount of the payment
\* fee added by mistake
TransactionFeeWrong(itemPrice) ==
    itemPrice * TransactionFeeRate + PaymentProcessingFixedCents * MilliPerCent

\* transactionFee = itemPrice * transactionFeeRate
TransactionFee(itemPrice) == itemPrice * TransactionFeeRate

etsyFeesCalculator(itemPrice, offsiteAds) ==
    [listingFee |-> ListingFeeCents * MilliPerCent,
     transactionFee |-> TransactionFee(itemPrice),
     paymentProcessingFee |->
         itemPrice * PaymentProcessingFeeRate
             + PaymentProcessingFixedCents * MilliPerCent,
     offsiteAdsFee |-> itemPrice * OffsiteAdsFeeRate(offsiteAds)]

\* offsiteAds ?? null of the LangChain tool wrapper: undefined becomes null.
NullishToNull(offsiteAds) == IF offsiteAds = "absent" THEN "null" ELSE offsiteAds

\* The three call paths of the multi-agent programs to the calculator.
\*   "chat"      01-function-calling.ts: the parsed arguments, unvalidated
\*   "tool"      03-langchain.ts: etsyFeesCalculator(args), zod-validated
\*   "langchain" lib/util.ts etsyFeesCalculatorLangChainTool, zod-validated
FeePaths == {"chat", "tool", "langchain"}

FeesViaPath(path, args) ==
    IF path = "langchain"
    THEN etsyFeesCalculator(args.itemPrice, NullishToNull(args.offsiteAds))
    ELSE etsyFeesCalculator(args.itemPrice, args.offsiteAds)

\* What a model may put in offsiteAds.  "truthy" is a truthy value that is
\* not a boolean (1, "yes"); zod's boolean().nullish() rejects it, so only
\* the unvalidated chat path can forward it.
OffsiteAdsValues(path) ==
    IF path = "chat"
    THEN {"true", "false", "null", "absent", "truthy"}
    ELSE {"true", "false", "null", "absent"}

PriceStep == 250
MaxPriceSteps == 14
ItemPrices == {PriceStep * k : k \in -2 .. MaxPriceSteps} \cup {1, 3000}

\* The etsyFeesCalculator tool calls a model can issue.
FeeRequests ==
    UNION {
      {[name |-> "etsyFeesCalculator", path |-> path,
        args |-> [itemPrice |-> itemPrice, offsiteAds |-> offsiteAds]] :
          itemPrice \in ItemPrices, offsiteAds \in OffsiteAdsValues(path)} :
      path \in FeePaths}

\* case "etsyFeesCalculator" of the dispatch, and the two tool wrappers.
ServeEtsyFees ==
    /\ pc = "called"
    /\ call.name = "etsyFeesCalculator"
    /\ result' = FeesViaPath(call.path, call.args)
    /\ pc' = "returned"
    /\ served' = Append(served, ToolMessage(call, result'))
    /\ UNCHANGED <<call, frame, invoked, files, messages>>

InitFees ==
    /\ call \in FeeRequests
    /\ result = NoResult
    /\ pc = "called"
    /\ frame = <<>>
    /\ invoked = <<>>
    /\ files = NoFiles
    /\ served = <<>>
    /\ messages = InitialMessages

NextFees == ServeEtsyFees
SpecFees == InitFees /\ [][NextFees]_vars

Returned(name) == pc = "returned" /\ call.name = name

C9_FeeFormulas ==
    Returned("etsyFeesCalculator") =>
        LET a == call.args IN
        /\ result.listingFee = 20000
        /\ result.transactionFee = a.itemPrice * 65
        /\ result.paymentProcessingFee = a.itemPrice * 30 + 25000
        /\ (a.itemPrice = 3000 /\ a.offsiteAds = "true") =>
             result = [listingFee |-> 20000, transactionFee |-> 195000,
                       paymentProcessingFee |-> 115000, offsiteAdsFee |-> 360000]
        /\ a.itemPrice >= 0 =>
             \A q \in ItemPrices :
                q >= a.itemPrice =>
                   LET r == FeesViaPath(call.path, [a EXCEPT !.itemPrice = q]) IN
                   /\ result.transactionFee <= r.transactionFee
                   /\ result.paymentProcessingFee <= r.paymentProcessingFee

\* C9 witness: the example of the spec, itemPrice = 30 with offsite ads.
C9_Witness ==
    /\ Returned("etsyFeesCalculator")
    /\ call.args = [itemPrice |-> 3000, offsiteAds |-> "true"]
    /\ result.transactionFee = 195000
    /\ result.paymentProcessingFee = 115000

-----------------------------------------------------------------------------
(* CostAnalyzer: lib/tools/costAnalysis.ts analyzeBusinessCosts *)

\* Units: amounts are counted in 24ths of a cent.
AmortizationMonths == 12
Cent == 2 * AmortizationMonths
Dollar == 100 * Cent

\* Math.round(x * 100) / 100 of an amount, as whole cents.
RoundCents(x) == RoundDiv(x, Cent)

\* Math.round((n / d) * 100 * 100) / 100 for d > 0, in hundredths of a
\* percent; long division keeps the intermediate products small.
PercentHundredths(n, d) ==
    LET q  == n \div d
        r  == n % d
        d1 == (r * 100) \div d
        r1 == (r * 100) % d
        d2 == (r1 * 100) \div d
        r2 == (r1 * 100) % d
    IN q * 10000 + d1 * 100 + d2 + (IF 2 * r2 >= d THEN 1 ELSE 0)

\* A JavaScript number that may be Infinity or NaN.
Finite(n) == [kind |-> "finite", n |-> n]
Infinity == [kind |-> "Infinity", n |-> 0]
NegInfinity == [kind |-> "-Infinity", n |-> 0]
NaN == [kind |-> "NaN", n |-> 0]

\* x > k and x < k for such a number and a finite k
JsGreater(x, k) ==
    \/ x.kind = "Infinity"
    \/ x.kind = "finite" /\ x.n > k
JsLess(x, k) ==
    \/ x.kind = "-Infinity"
    \/ x.kind = "finite" /\ x.n < k

\* the reduce of lines 54-62 with every cost counted at its full amount
MonthlyShareNoAmortize(cost) == cost.amount

\* One step of the reduce of lines 54-62; amounts are whole cents, so the
\* division is exact.
MonthlyShare(cost) ==
    IF cost.frequency = "monthly"
    THEN cost.amount
    ELSE IF cost.frequency = "annual"
         THEN cost.amount \div AmortizationMonths
         ELSE cost.amount \div AmortizationMonths

\* fixedCosts.reduce((sum, cost) => sum + share of cost, 0)
MonthlyFixedCosts(fixedCosts) ==
    SumSeq([i \in 1 .. Len(fixedCosts) |-> MonthlyShare(fixedCosts[i])])

VariableCostPerItem(variableCosts) ==
    variableCosts.materials + variableCosts.etsyFees
        + OrZero(variableCosts.shipping)
        + OrZero(variableCosts.labor)
        + OrZero(variableCosts.packaging)

\* Math.floor in place of Math.ceil
BreakEvenUnitsFloor(monthlyFixedCosts, contributionMargin) ==
    IF contributionMargin > 0
    THEN Finite(monthlyFixedCosts \div contributionMargin)
    ELSE NaN

\* one unit more than Math.ceil gives, for a positive margin
BreakEvenUnitsOneMore(monthlyFixedCosts, contributionMargin) ==
    IF contributionMargin > 0
    THEN Finite(CeilDiv(monthlyFixedCosts, contributionMargin) + 1)
    ELSE NaN

\* Math.ceil(monthlyFixedCosts / contributionMargin), unguarded: a zero
\* margin divides by zero, a negative one gives a non-positive count.
BreakEvenUnits(monthlyFixedCosts, contributionMargin) ==
    IF contributionMargin > 0
    THEN Finite(CeilDiv(monthlyFixedCosts, contributionMargin))
    ELSE IF contributionMargin < 0
         THEN Finite(CeilDiv(-monthlyFixedCosts, -contributionMargin))
         ELSE IF monthlyFixedCosts > 0 THEN Infinity
              ELSE IF monthlyFixedCosts < 0 THEN NegInfinity
              ELSE NaN

\* netProfit computed from revenue alone, the variable costs forgotten
NetProfitNoVariable(revenue, totalVariableCosts, monthlyFixedCosts) ==
    revenue - monthlyFixedCosts

\* grossProfit - monthlyFixedCosts with grossProfit = revenue - totalVariableCosts
NetProfit(revenue, totalVariableCosts, monthlyFixedCosts) ==
    (revenue - totalVariableCosts) - monthlyFixedCosts

\* The body of salesVolumes.map; every field is rounded to cents, profitMargin
\* to hundredths of a percent.
Projection(volume, sellingPrice, variableCostPerItem, monthlyFixedCosts) ==
    LET revenue == volume * sellingPrice
        totalVariableCosts == volume * variableCostPerItem
        totalCosts == monthlyFixedCosts + totalVariableCosts
        grossProfit == revenue - totalVariableCosts
        netProfit == NetProfit(revenue, totalVariableCosts, monthlyFixedCosts)
    IN [salesVolume |-> volume,
        revenue |-> RoundCents(revenue),
        totalFixedCosts |-> RoundCents(monthlyFixedCosts),
        totalVariableCosts |-> RoundCents(totalVariableCosts),
        totalCosts |-> RoundCents(totalCosts),
        grossProfit |-> RoundCents(grossProfit),
        netProfit |-> RoundCents(netProfit),
        profitMargin |-> IF revenue > 0
                         THEN PercentHundredths(netProfit, revenue)
                         ELSE 0]

\* (variableCosts.materials / variableCostPerItem) * 100 > 70
MaterialsOverSeventyPercent(materials, variableCostPerItem) ==
    IF variableCostPerItem > 0
    THEN materials * 100 > 70 * variableCostPerItem
    ELSE IF variableCostPerItem < 0
         THEN materials * 100 < 70 * variableCostPerItem
         ELSE materials > 0

\* The recommendations, in the order the code pushes them; each is the kind
\* of the sentence and the number printed in it.
CostRecommendations(variableCosts, sellingPrice, variableCostPerItem, contributionMargin, breakEvenUnits, projections) ==
    LET roundedPercent == Finite(RoundDiv(contributionMargin * 100, sellingPrice))
        marginPart ==
            IF contributionMargin * 100 < 30 * sellingPrice
            THEN <<[kind |-> "marginLow", n |-> roundedPercent]>>
            ELSE IF contributionMargin * 100 > 60 * sellingPrice
                 THEN <<[kind |-> "marginHealthy", n |-> roundedPercent]>>
                 ELSE <<>>
        breakEvenPart ==
            IF JsGreater(breakEvenUnits, 100)
            THEN <<[kind |-> "breakEvenHigh", n |-> breakEvenUnits]>>
            ELSE IF JsLess(breakEvenUnits, 30)
                 THEN <<[kind |-> "breakEvenAchievable", n |-> breakEvenUnits]>>
                 ELSE <<>>
        profitable == SelectSeq(projections, LAMBDA p : p.netProfit > 0)
        profitPart ==
            IF Len(profitable) = 0
            THEN <<[kind |-> "noneProfitable"]>>
            ELSE <<[kind |-> "firstProfitable",
                    n |-> Finite(profitable[1].salesVolume)]>>
        laborPart ==
            IF OrZero(variableCosts.labor) = 0
            THEN <<[kind |-> "laborMissing"]>>
            ELSE <<>>
        materialPart ==
            IF MaterialsOverSeventyPercent(variableCosts.materials, variableCostPerItem)
            THEN <<[kind |-> "materialsHeavy"]>>
            ELSE <<>>
    IN marginPart \o breakEvenPart \o profitPart \o laborPart \o materialPart

\* sellingPrice > 0 (the model draws no other price).
analyzeBusinessCosts(fixedCosts, variableCosts, sellingPrice, salesVolumes) ==
    LET monthlyFixedCosts == MonthlyFixedCosts(fixedCosts)
        variableCostPerItem == VariableCostPerItem(variableCosts)
        contributionMargin == sellingPrice - variableCostPerItem
        breakEvenUnits == BreakEvenUnits(monthlyFixedCosts, contributionMargin)
        projections ==
            [i \in 1 .. Len(salesVolumes) |->
                Projection(salesVolumes[i], sellingPrice, variableCostPerItem,
                           monthlyFixedCosts)]
    IN [sellingPrice |-> RoundCents(sellingPrice),
        variableCostPerItem |-> RoundCents(variableCostPerItem),
        contributionMargin |-> RoundCents(contributionMargin),
        contributionMarginPercent |->
            PercentHundredths(contributionMargin, sellingPrice),
        monthlyFixedCosts |-> RoundCents(monthlyFixedCosts),
        breakEvenUnits |-> breakEvenUnits,
        breakEvenRevenue |->
            IF breakEvenUnits.kind = "finite"
            THEN Finite(RoundCents(breakEvenUnits.n * sellingPrice))
            ELSE breakEvenUnits,
        projections |-> projections,
        recommendations |->
            CostRecommendations(variableCosts, sellingPrice, variableCostPerItem,
                                contributionMargin, breakEvenUnits, projections)]

\* The sequences over S of length at most n.
SeqsUpTo(S, n) == UNION {[1 .. k -> S] : k \in 0 .. n}

MaxFixedCosts == 2

\* Fixed costs are entered in whole cents.
FixedAmounts == {0, 100 * Dollar, 120 * Dollar}
Frequencies == {"monthly", "annual", "one-time"}
FixedCostChoices ==
    {[name |-> "cost", amount |-> a, frequency |-> f] :
        a \in FixedAmounts, f \in Frequencies}
FixedCostLists == SeqsUpTo(FixedCostChoices, MaxFixedCosts)

\* Variable costs; the fees of a price may carry fractions of a cent
\* (2.0475 is 204.75 cents).
VariableCostChoices ==
    {[materials |-> m, etsyFees |-> e, shipping |-> sp[1], labor |-> l,
      packaging |-> sp[2]] :
        m \in {5 * Dollar, 1167 * Cent},
        e \in {2 * Dollar, (819 * Cent) \div 4},
        l \in {None, Some(0), Some(10 * Dollar)},
        sp \in {<<None, None>>, <<Some(350 * Cent), Some(Dollar)>>}}

SellingPrices == {20 * Dollar, 1533 * Cent, 7 * Dollar, 5 * Dollar}
SalesVolumeLists == {<<>>, <<10, 50>>, <<0, 1, 25, 200>>}

CostRequests ==
    {[name |-> "analyzeBusinessCosts", path |-> "chat",
      args |-> [fixedCosts |-> f, variableCosts |-> v, sellingPrice |-> p,
                salesVolumes |-> s]] :
        f \in FixedCostLists, v \in VariableCostChoices,
        p \in SellingPrices, s \in SalesVolumeLists}

\* case "analyzeBusinessCosts" of the dispatch
ServeAnalyzeBusinessCosts ==
    /\ pc = "called"
    /\ call.name = "analyzeBusinessCosts"
    /\ call.path # "tool"
    /\ result' = analyzeBusinessCosts(call.args.fixedCosts, call.args.variableCosts,
                                      call.args.sellingPrice, call.args.salesVolumes)
    /\ pc' = "returned"
    /\ served' = Append(served, ToolMessage(call, result'))
    /\ UNCHANGED <<call, frame, invoked, files, messages>>

InitCost ==
    /\ call \in CostRequests
    /\ result = NoResult
    /\ pc = "called"
    /\ frame = <<>>
    /\ invoked = <<>>
    /\ files = NoFiles
    /\ served = <<>>
    /\ messages = InitialMessages

NextCost == ServeAnalyzeBusinessCosts
SpecCost == InitCost /\ [][NextCost]_vars

\* The request's monthly fixed costs times twelve, and its contribution
\* margin, recomputed from the arguments without rounding.
TwelveTimesMonthly(fixedCosts) ==
    SumSeq([i \in 1 .. Len(fixedCosts) |->
               IF fixedCosts[i].frequency = "monthly"
               THEN 12 * fixedCosts[i].amount
               ELSE fixedCosts[i].amount])
ExactMargin(a) ==
    a.sellingPrice - a.variableCosts.materials - a.variableCosts.etsyFees
        - OrZero(a.variableCosts.shipping) - OrZero(a.variableCosts.labor)
        - OrZero(a.variableCosts.packaging)
WholeCents(a) ==
    /\ a.sellingPrice % Cent = 0
    /\ a.variableCosts.materials % Cent = 0
    /\ a.variableCosts.etsyFees % Cent = 0
    /\ OrZero(a.variableCosts.shipping) % Cent = 0
    /\ OrZero(a.variableCosts.labor) % Cent = 0
    /\ OrZero(a.variableCosts.packaging) % Cent = 0

\* C1 as stated: on the returned (rounded) fields of every result with
\* contributionMargin > 0, breakEvenUnits * contributionMargin >=
\* monthlyFixedCosts and (breakEvenUnits - 1) * contributionMargin <
\* monthlyFixedCosts.
C1_AsStated ==
    (Returned("analyzeBusinessCosts") /\ result.contributionMargin > 0) =>
        /\ result.breakEvenUnits.n * result.contributionMargin
              >= result.monthlyFixedCosts
        /\ (result.breakEvenUnits.n - 1) * result.contributionMargin
              < result.monthlyFixedCosts

\* C1 as amended: breakEvenUnits is the least count whose contribution covers
\* the fixed costs before rounding (units * margin >= fixed and
\* (units - 1) * margin < fixed on the unrounded margin and fixed costs);
\* on the returned fields, rounded to cents, the second inequality is only
\* non-strict, and both hold when every amount given is in whole cents.
C1_BreakEvenIsLeastCover ==
    Returned("analyzeBusinessCosts") =>
        LET a == call.args
            margin == ExactMargin(a)
            fixed12 == TwelveTimesMonthly(a.fixedCosts)
            units == result.breakEvenUnits
        IN /\ margin > 0 =>
                /\ units.kind = "finite"
                /\ 12 * units.n * margin >= fixed12
                /\ 12 * (units.n - 1) * margin < fixed12
           /\ (result.contributionMargin > 0 /\ WholeCents(a)) =>
                /\ units.n * result.contributionMargin >= result.monthlyFixedCosts
                /\ (units.n - 1) * result.contributionMargin
                      <= result.monthlyFixedCosts

\* C1 witness: an annual cost of 100 against a margin of 8.33 in whole cents:
\* two units break even, and one unit's margin equals the rounded fixed costs.
C1_Witness ==
    /\ Returned("analyzeBusinessCosts")
    /\ WholeCents(call.args)
    /\ result.contributionMargin = 833
    /\ result.monthlyFixedCosts = 833
    /\ result.breakEvenUnits = Finite(2)

\* The example request of the spec: one monthly cost of 120, materials 5,
\* fees 2, price 20, volumes 10 and 50.
ExampleCostArgs ==
    [fixedCosts |-> <<[name |-> "cost", amount |-> 120 * Dollar,
                       frequency |-> "monthly"]>>,
     variableCosts |-> [materials |-> 5 * Dollar, etsyFees |-> 2 * Dollar,
                        shipping |-> None, labor |-> None, packaging |-> None],
     sellingPrice |-> 20 * Dollar,
     salesVolumes |-> <<10, 50>>]

\* C10: the example request returns contributionMargin 13, breakEvenUnits 10
\* and at volume 50 revenue 1000, totalVariableCosts 350, netProfit 530; and
\* every projection has totalCosts = totalFixedCosts + totalVariableCosts,
\* grossProfit = revenue - totalVariableCosts and netProfit = grossProfit -
\* totalFixedCosts, each within one cent.
C10_ProjectionArithmetic ==
    Returned("analyzeBusinessCosts") =>
        /\ call.args = ExampleCostArgs =>
             /\ result.contributionMargin = 1300
             /\ result.breakEvenUnits = Finite(10)
             /\ result.projections[2].salesVolume = 50
             /\ result.projections[2].revenue = 100000
             /\ result.projections[2].totalVariableCosts = 35000
             /\ result.projections[2].netProfit = 53000
        /\ Len(result.projections) = Len(call.args.salesVolumes)
        /\ \A i \in 1 .. Len(result.projections) :
             LET p == result.projections[i] IN
             /\ p.salesVolume = call.args.salesVolumes[i]
             /\ Abs(p.totalCosts - (p.totalFixedCosts + p.totalVariableCosts)) <= 1
             /\ Abs(p.grossProfit - (p.revenue - p.totalVariableCosts)) <= 1
             /\ Abs(p.netProfit - (p.grossProfit - p.totalFixedCosts)) <= 1

\* C10 witness: the example request has been served and its projection at
\* volume 50 shows a net profit of 530.
C10_Witness ==
    /\ Returned("analyzeBusinessCosts")
    /\ call.args = ExampleCostArgs
    /\ Len(result.projections) = 2
    /\ result.projections[2].netProfit = 53000

-----------------------------------------------------------------------------
(* SalesEstimator: lib/tools/salesEstimation.ts estimateSalesVolume *)

\* Units: marketingBudget in cents; competitorPrice in 24ths of a cent.

\* the optimistic ternary with its branches swapped
BaseSalesSwapped(isNewShop) ==
    [conservative |-> IF isNewShop THEN 5 ELSE 15,
     moderate |-> IF isNewShop THEN 15 ELSE 40,
     optimistic |-> IF isNewShop THEN 80 ELSE 30]

\* base estimates that remember earlier calls: once a call has been served,
\* every shop counts as an established one
BaseSalesRemembering(isNewShop) ==
    [conservative |-> IF isNewShop /\ served = <<>> THEN 5 ELSE 15,
     moderate |-> IF isNewShop /\ served = <<>> THEN 15 ELSE 40,
     optimistic |-> IF isNewShop /\ served = <<>> THEN 30 ELSE 80]

\* Base estimates for a typical item (monthly)
BaseSales(isNewShop) ==
    [conservative |-> IF isNewShop THEN 5 ELSE 15,
     moderate |-> IF isNewShop THEN 15 ELSE 40,
     optimistic |-> IF isNewShop THEN 30 ELSE 80]

\* Math.round(base * marketingMultiplier) with marketingMultiplier =
\* 1 + (marketingBudget / 200) * 0.5 = (40000 + cents) / 40000
BoostedSales(base, marketingBudget) ==
    RoundDiv(base * (40000 + marketingBudget), 40000)

\* the quarterly figures taken over two months instead of three
SalesEstimateTwoMonthQuarter(scenario, monthlySales, competitorPrice) ==
    [scenario |-> scenario,
     monthlySales |-> monthlySales,
     quarterlySales |-> monthlySales * 2,
     annualSales |-> monthlySales * 12,
     monthlyRevenue |-> RoundCents(monthlySales * competitorPrice),
     quarterlyRevenue |-> RoundCents(monthlySales * 2 * competitorPrice),
     annualRevenue |-> RoundCents(monthlySales * 12 * competitorPrice)]

\* One entry of estimates; every revenue is rounded to cents on its own.
SalesEstimate(scenario, monthlySales, competitorPrice) ==
    [scenario |-> scenario,
     monthlySales |-> monthlySales,
     quarterlySales |-> monthlySales * 3,
     annualSales |-> monthlySales * 12,
     monthlyRevenue |-> RoundCents(monthlySales * competitorPrice),
     quarterlyRevenue |-> RoundCents(monthlySales * 3 * competitorPrice),
     annualRevenue |-> RoundCents(monthlySales * 12 * competitorPrice)]

SalesKeyFactors(competitorPrice, isNewShop, marketingBudget) ==
    <<IF isNewShop THEN "newShop" ELSE "establishedShop",
      IF competitorPrice < 25 * Dollar THEN "affordable"
      ELSE IF competitorPrice < 50 * Dollar THEN "moderate" ELSE "premium",
      IF marketingBudget > 0 THEN "marketingBudget" ELSE "organicTraffic",
      "competition", "photos", "reviews", "seasonal">>

SalesRecommendations(competitorPrice, isNewShop, marketingBudget) ==
    (IF isNewShop THEN <<"firstSales", "launchDiscount">> ELSE <<>>)
    \o (IF marketingBudget = 0 THEN <<"allocateAds">>
        ELSE IF marketingBudget < 5000 THEN <<"budgetLow">> ELSE <<>>)
    \o (IF competitorPrice > 50 * Dollar THEN <<"higherPrice">> ELSE <<>>)
    \o <<"photography", "seo">>

ComparableShops(competitorPrice) ==
    <<[shopName |-> "CraftyCreations", monthlySales |-> 45,
       pricePoint |-> <<competitorPrice - 5 * Dollar, competitorPrice + 5 * Dollar>>],
      [shopName |-> "ArtisanMakers", monthlySales |-> 78,
       pricePoint |-> <<competitorPrice - 3 * Dollar, competitorPrice + 8 * Dollar>>],
      [shopName |-> "HandmadeByAlex", monthlySales |-> 32,
       pricePoint |-> <<competitorPrice - 8 * Dollar, competitorPrice + 2 * Dollar>>]>>

\* estimateSalesVolume with the base estimates scaled to the time horizon
estimateSalesVolumeScaledToHorizon(itemName, competitorPrice, isNewShop, marketingBudgetOpt, timeHorizonOpt) ==
    LET marketingBudget == OrZero(marketingBudgetOpt)
        timeHorizon == IF timeHorizonOpt = None THEN "monthly" ELSE timeHorizonOpt[1]
        months == IF timeHorizon = "quarterly" THEN 3
                  ELSE IF timeHorizon = "annually" THEN 12 ELSE 1
        base == BaseSales(isNewShop)
    IN [itemName |-> itemName,
        estimatedPrice |-> competitorPrice,
        timeHorizon |-> timeHorizon,
        estimates |->
            <<SalesEstimate("conservative",
                            months * BoostedSales(base.conservative, marketingBudget),
                            competitorPrice),
              SalesEstimate("moderate",
                            months * BoostedSales(base.moderate, marketingBudget),
                            competitorPrice),
              SalesEstimate("optimistic",
                            months * BoostedSales(base.optimistic, marketingBudget),
                            competitorPrice)>>,
        keyFactors |-> SalesKeyFactors(competitorPrice, isNewShop, marketingBudget),
        recommendations |->
            SalesRecommendations(competitorPrice, isNewShop, marketingBudget),
        comparableShops |-> ComparableShops(competitorPrice)]

\* marketingBudget and timeHorizon are optional: the parameter defaults
\* (0, "monthly") replace an absent value.
estimateSalesVolume(itemName, competitorPrice, isNewShop, marketingBudgetOpt, timeHorizonOpt) ==
    LET marketingBudget == OrZero(marketingBudgetOpt)
        timeHorizon == IF timeHorizonOpt = None THEN "monthly" ELSE timeHorizonOpt[1]
        base == BaseSales(isNewShop)
        baseConservative == BoostedSales(base.conservative, marketingBudget)
        baseModerate == BoostedSales(base.moderate, marketingBudget)
        baseOptimistic == BoostedSales(base.optimistic, marketingBudget)
    IN [itemName |-> itemName,
        estimatedPrice |-> competitorPrice,
        timeHorizon |-> timeHorizon,
        estimates |->
            <<SalesEstimate("conservative", baseConservative, competitorPrice),
              SalesEstimate("moderate", baseModerate, competitorPrice),
              SalesEstimate("optimistic", baseOptimistic, competitorPrice)>>,
        keyFactors |-> SalesKeyFactors(competitorPrice, isNewShop, marketingBudget),
        recommendations |->
            SalesRecommendations(competitorPrice, isNewShop, marketingBudget),
        comparableShops |-> ComparableShops(competitorPrice)]

BudgetStep == 5000
MaxBudgetSteps == 10

\* Marketing budgets in cents; the core validates nothing, so negative
\* budgets are served like any other.
MarketingBudgets ==
    {BudgetStep * k : k \in -MaxBudgetSteps .. MaxBudgetSteps}
        \cup {-40001, -40000, -1, 1, 3333, 4999}

\* Prices, one of them (9.995) with half a cent.
CompetitorPrices ==
    {0, 2499 * Cent, 3275 * Cent, 55 * Dollar, 999 * Cent + Cent \div 2}

SalesRequests ==
    {[name |-> "estimateSalesVolume", path |-> "chat",
      args |-> [itemName |-> "candle", competitorPrice |-> p, isNewShop |-> n,
                marketingBudget |-> b, timeHorizon |-> t]] :
        p \in CompetitorPrices, n \in BOOLEAN,
        b \in {None} \cup {Some(x) : x \in MarketingBudgets},
        t \in {None, Some("monthly"), Some("quarterly"), Some("annually")}}

\* case "estimateSalesVolume" of the dispatch
ServeEstimateSalesVolume ==
    /\ pc = "called"
    /\ call.name = "estimateSalesVolume"
    /\ call.path # "tool"
    /\ result' = estimateSalesVolume(call.args.itemName, call.args.competitorPrice,
                                     call.args.isNewShop, call.args.marketingBudget,
                                     call.args.timeHorizon)
    /\ pc' = "returned"
    /\ served' = Append(served, ToolMessage(call, result'))
    /\ UNCHANGED <<call, frame, invoked, files, messages>>

InitSales ==
    /\ call \in SalesRequests
    /\ result = NoResult
    /\ pc = "called"
    /\ frame = <<>>
    /\ invoked = <<>>
    /\ files = NoFiles
    /\ served = <<>>
    /\ messages = InitialMessages

NextSales == ServeEstimateSalesVolume
SpecSales == InitSales /\ [][NextSales]_vars

ScenariosOrdered(estimates) ==
    /\ estimates[1].scenario = "conservative"
    /\ estimates[2].scenario = "moderate"
    /\ estimates[3].scenario = "optimistic"
    /\ estimates[1].monthlySales <= estimates[2].monthlySales
    /\ estimates[2].monthlySales <= estimates[3].monthlySales
    /\ estimates[1].quarterlySales <= estimates[2].quarterlySales
    /\ estimates[2].quarterlySales <= estimates[3].quarterlySales
    /\ estimates[1].annualSales <= estimates[2].annualSales
    /\ estimates[2].annualSales <= estimates[3].annualSales

\* C5 as stated: for every result of estimateSalesVolume, whatever budget the
\* core accepted, conservative <= moderate <= optimistic for the monthly,
\* quarterly and annual sales.
C5_AsStated ==
    Returned("estimateSalesVolume") => ScenariosOrdered(result.estimates)

\* C5 as amended: conservative <= moderate <= optimistic for the monthly,
\* quarterly and annual sales whenever the marketing budget is absent or at
\* least -400 (the marketing multiplier is not negative), so in particular
\* for every budget >= 0.
C5_ScenariosOrdered ==
    (Returned("estimateSalesVolume") /\ OrZero(call.args.marketingBudget) >= -40000)
        => ScenariosOrdered(result.estimates)

\* C5 witness: a new shop with a budget of 100 gets 6, 19 and 38 monthly sales.
C5_Witness ==
    /\ Returned("estimateSalesVolume")
    /\ call.args.isNewShop
    /\ call.args.marketingBudget = Some(10000)
    /\ result.estimates[1].monthlySales = 6
    /\ result.estimates[2].monthlySales = 19
    /\ result.estimates[3].monthlySales = 38

-----------------------------------------------------------------------------
(* AdvertisingAllocator: lib/tools/advertising.ts suggestAdvertisingPlatforms *)

\* Units: budgets and click prices in cents.  A text is the sequence of its
\* characters, so that toLowerCase and includes are computed, not assumed.

UpperCase == <<"A", "B", "C", "D", "E", "F", "G", "H", "I", "J", "K", "L", "M", "N", "O", "P", "Q", "R", "S", "T", "U", "V", "W", "X", "Y", "Z">>
LowerCase == <<"a", "b", "c", "d", "e", "f", "g", "h", "i", "j", "k", "l", "m", "n", "o", "p", "q", "r", "s", "t", "u", "v", "w", "x", "y", "z">>

\* String.prototype.toLowerCase
ToLowerCase(text) ==
    [i \in 1 .. Len(text) |->
        IF \E j \in 1 .. Len(UpperCase) : UpperCase[j] = text[i]
        THEN LowerCase[CHOOSE j \in 1 .. Len(UpperCase) : UpperCase[j] = text[i]]
        ELSE text[i]]

\* String.prototype.includes
Includes(text, word) ==
    \E k \in 0 .. Len(text) - Len(word) :
        \A i \in 1 .. Len(word) : text[k + i] = word[i]

IncludesAny(text, words) == \E w \in words : Includes(text, w)

JewelryKeywords ==
    {<<"j", "e", "w", "e", "l", "r", "y">>,
     <<"f", "a", "s", "h", "i", "o", "n">>,
     <<"c", "l", "o", "t", "h", "i", "n", "g">>,
     <<"a", "c", "c", "e", "s", "s", "o", "r", "i", "e", "s">>}
HomeKeywords ==
    {<<"h", "o", "m", "e">>,
     <<"d", "e", "c", "o", "r">>,
     <<"f", "u", "r", "n", "i", "t", "u", "r", "e">>,
     <<"a", "r", "t">>}
CraftKeywords ==
    {<<"c", "r", "a", "f", "t">>,
     <<"d", "i", "y">>,
     <<"s", "u", "p", "p", "l", "i", "e", "s">>}
ToyKeywords ==
    {<<"t", "o", "y">>,
     <<"g", "a", "m", "e">>,
     <<"k", "i", "d", "s">>}

\* The mock platform database; TikTok Ads is in it but no branch selects it.
AllPlatforms ==
    [etsyAds |-> [name |-> "Etsy Ads", typicalCPC |-> Some(25),
                  typicalCPM |-> None, minimumBudget |-> 100,
                  recommendedBudget |-> 5000],
     googleAds |-> [name |-> "Google Ads", typicalCPC |-> Some(150),
                    typicalCPM |-> Some(400), minimumBudget |-> 1000,
                    recommendedBudget |-> 15000],
     facebookInstagram |-> [name |-> "Facebook & Instagram Ads",
                            typicalCPC |-> Some(80), typicalCPM |-> Some(800),
                            minimumBudget |-> 500, recommendedBudget |-> 10000],
     pinterest |-> [name |-> "Pinterest Ads", typicalCPC |-> Some(60),
                    typicalCPM |-> Some(500), minimumBudget |-> 1000,
                    recommendedBudget |-> 7500],
     tiktok |-> [name |-> "TikTok Ads", typicalCPC |-> Some(100),
                 typicalCPM |-> Some(1000), minimumBudget |-> 5000,
                 recommendedBudget |-> 15000]]

\* Etsy Ads first, then the two platforms of the first matching branch.
RecommendedPlatformNames(productCategory) ==
    LET categoryKeywords == ToLowerCase(productCategory) IN
    <<"etsyAds">> \o
    (IF IncludesAny(categoryKeywords, JewelryKeywords)
     THEN <<"facebookInstagram", "pinterest">>
     ELSE IF IncludesAny(categoryKeywords, HomeKeywords)
          THEN <<"pinterest", "facebookInstagram">>
          ELSE IF IncludesAny(categoryKeywords, CraftKeywords)
               THEN <<"pinterest", "googleAds">>
               ELSE IF IncludesAny(categoryKeywords, ToyKeywords)
                    THEN <<"facebookInstagram", "googleAds">>
                    ELSE <<"facebookInstagram", "googleAds">>)

\* the category's platforms without the filter on the budget
RecommendedPlatformsUnfiltered(productCategory, monthlyBudget) ==
    LET names == RecommendedPlatformNames(productCategory)
    IN [i \in 1 .. Len(names) |-> AllPlatforms[names[i]]]

\* Filter platforms based on budget; if none is affordable, just Etsy Ads.
RecommendedPlatforms(productCategory, monthlyBudget) ==
    LET names == RecommendedPlatformNames(productCategory)
        platforms == [i \in 1 .. Len(names) |-> AllPlatforms[names[i]]]
        affordablePlatforms ==
            SelectSeq(platforms, LAMBDA q : q.minimumBudget <= monthlyBudget)
    IN IF Len(affordablePlatforms) > 0
       THEN affordablePlatforms
       ELSE <<AllPlatforms.etsyAds>>

\* allocated / platform.typicalCPC, when the platform has a click price
ClicksFor(platform, allocated) ==
    IF platform.typicalCPC = None THEN None
    ELSE Some(RoundDiv(allocated, platform.typicalCPC[1]))

\* (allocated / platform.typicalCPM) * 1000, when it has an impression price
ImpressionsFor(platform, allocated) ==
    IF platform.typicalCPM = None THEN None
    ELSE Some(RoundDiv(allocated * 1000, platform.typicalCPM[1]))

\* every other platform given the whole 60 percent
PerPlatformPercentageUndivided(count) == 60

\* Math.round(60 / otherPlatforms.length)
PerPlatformPercentage(count) == RoundDiv(60, count)

\* the tier tests written with <= in place of <
BudgetTierInclusive(monthlyBudget) ==
    IF monthlyBudget <= 5000 THEN "small"
    ELSE IF monthlyBudget <= 15000 THEN "medium" ELSE "large"

\* if (monthlyBudget < 50) ... else if (monthlyBudget < 150) ... else
BudgetTier(monthlyBudget) ==
    IF monthlyBudget < 5000 THEN "small"
    ELSE IF monthlyBudget < 15000 THEN "medium" ELSE "large"

\* the tiers of lines 241-307 with the shares of the other platforms left out
BudgetAllocationEtsyShareOnly(recommendedPlatforms, monthlyBudget) ==
    LET share == IF BudgetTier(monthlyBudget) = "small" THEN 10
                 ELSE IF BudgetTier(monthlyBudget) = "medium" THEN 6 ELSE 4
        allocated == RoundDiv(monthlyBudget * share, 10)
    IN <<[platform |-> "Etsy Ads",
          allocatedBudget |-> allocated,
          percentage |-> share * 10,
          estimatedClicks |-> Some(RoundDiv(allocated, 25)),
          estimatedImpressions |-> None,
          reasoning |-> "presence"]>>

\* The three budget tiers of lines 241-307.
BudgetAllocation(recommendedPlatforms, monthlyBudget) ==
    LET others == SelectSeq(recommendedPlatforms, LAMBDA q : q.name # "Etsy Ads") IN
    IF BudgetTier(monthlyBudget) = "small"
    THEN <<[platform |-> "Etsy Ads",
            allocatedBudget |-> monthlyBudget,
            percentage |-> 100,
            estimatedClicks |-> Some(RoundDiv(monthlyBudget, 25)),
            estimatedImpressions |-> None,
            reasoning |-> "limited"]>>
    ELSE IF BudgetTier(monthlyBudget) = "medium"
    THEN <<[platform |-> "Etsy Ads",
            allocatedBudget |-> RoundDiv(monthlyBudget * 6, 10),
            percentage |-> 60,
            estimatedClicks |-> Some(RoundDiv(monthlyBudget * 6, 250)),
            estimatedImpressions |-> None,
            reasoning |-> "primary"]>>
         \o (IF Len(others) > 0
             THEN LET secondPlatform == others[1]
                      allocated == RoundDiv(monthlyBudget * 4, 10)
                  IN <<[platform |-> secondPlatform.name,
                        allocatedBudget |-> allocated,
                        percentage |-> 40,
                        estimatedClicks |-> ClicksFor(secondPlatform, allocated),
                        estimatedImpressions |->
                            ImpressionsFor(secondPlatform, allocated),
                        reasoning |-> "awareness"]>>
             ELSE <<>>)
    ELSE LET etsyBudget == RoundDiv(monthlyBudget * 4, 10)
             remainingBudget == monthlyBudget - etsyBudget
         IN <<[platform |-> "Etsy Ads",
               allocatedBudget |-> etsyBudget,
               percentage |-> 40,
               estimatedClicks |-> Some(RoundDiv(etsyBudget, 25)),
               estimatedImpressions |-> None,
               reasoning |-> "presence"]>>
            \o [i \in 1 .. Len(others) |->
                  LET allocated == RoundDiv(remainingBudget, Len(others)) IN
                  [platform |-> others[i].name,
                   allocatedBudget |-> allocated,
                   percentage |-> PerPlatformPercentage(Len(others)),
                   estimatedClicks |-> ClicksFor(others[i], allocated),
                   estimatedImpressions |-> ImpressionsFor(others[i], allocated),
                   reasoning |-> "diversify"]]

AdRecommendations(recommendedPlatforms, monthlyBudget) ==
    (IF monthlyBudget < 5000 THEN <<"limited", "increase">> ELSE <<"monitor">>)
    \o <<"images", "roas">>
    \o (IF \E i \in 1 .. Len(recommendedPlatforms) :
              recommendedPlatforms[i].name = "Facebook & Instagram Ads"
        THEN <<"instagram">> ELSE <<>>)
    \o (IF \E i \in 1 .. Len(recommendedPlatforms) :
              recommendedPlatforms[i].name = "Pinterest Ads"
        THEN <<"pinterest">> ELSE <<>>)
    \o <<"free">>

suggestAdvertisingPlatforms(productCategory, monthlyBudget, targetAudience) ==
    LET recommendedPlatforms == RecommendedPlatforms(productCategory, monthlyBudget)
        budgetAllocation == BudgetAllocation(recommendedPlatforms, monthlyBudget)
        totalEstimatedClicks ==
            SumSeq([i \in 1 .. Len(budgetAllocation) |->
                       OrZero(budgetAllocation[i].estimatedClicks)])
    IN [productCategory |-> productCategory,
        totalBudget |-> monthlyBudget,
        recommendedPlatforms |-> recommendedPlatforms,
        budgetAllocation |-> budgetAllocation,
        recommendations |-> AdRecommendations(recommendedPlatforms, monthlyBudget),
        expectedROI |-> [estimatedClicks |-> totalEstimatedClicks,
                         estimatedConversionRate |-> 3,
                         estimatedSales |-> RoundDiv(totalEstimatedClicks * 3, 100),
                         estimatedRevenue |-> 0]]

ProductCategories ==
    {<<"J", "e", "w", "e", "l", "r", "y">>,
     <<"h", "o", "m", "e", " ", "d", "e", "c", "o", "r">>,
     <<"P", "a", "r", "t", "y", " ", "S", "u", "p", "p", "l", "i", "e", "s">>,
     <<"c", "r", "a", "f", "t", " ", "k", "i", "t", "s">>,
     <<"T", "o", "y", "s">>,
     <<"c", "a", "n", "d", "l", "e", "s">>,
     <<>>,
     <<"K", "i", "d", "s", " ", "F", "a", "s", "h", "i", "o", "n">>}

AdBudgetStep == 2500
MaxAdBudgetSteps == 12

\* Monthly budgets in cents, around every platform minimum and tier edge.
AdBudgets ==
    {AdBudgetStep * k : k \in -1 .. MaxAdBudgetSteps}
        \cup {0, 50, 99, 100, 499, 500, 700, 999, 1000, 4999, 5000, 14999, 15000,
              33333}

AdRequests ==
    {[name |-> "suggestAdvertisingPlatforms", path |-> "chat",
      args |-> [productCategory |-> c, monthlyBudget |-> b, targetAudience |-> t]] :
        c \in ProductCategories, b \in AdBudgets, t \in {None, Some("crafters")}}

\* case "suggestAdvertisingPlatforms" of the dispatch
ServeSuggestAdvertisingPlatforms ==
    /\ pc = "called"
    /\ call.name = "suggestAdvertisingPlatforms"
    /\ call.path # "tool"
    /\ result' = suggestAdvertisingPlatforms(call.args.productCategory,
                                             call.args.monthlyBudget,
                                             call.args.targetAudience)
    /\ pc' = "returned"
    /\ served' = Append(served, ToolMessage(call, result'))
    /\ UNCHANGED <<call, frame, invoked, files, messages>>

InitAds ==
    /\ call \in AdRequests
    /\ result = NoResult
    /\ pc = "called"
    /\ frame = <<>>
    /\ invoked = <<>>
    /\ files = NoFiles
    /\ served = <<>>
    /\ messages = InitialMessages

NextAds == ServeSuggestAdvertisingPlatforms
SpecAds == InitAds /\ [][NextAds]_vars

PercentageSum(budgetAllocation) ==
    SumSeq([i \in 1 .. Len(budgetAllocation) |-> budgetAllocation[i].percentage])

\* C4: for every productCategory and monthlyBudget, the percentage fields of
\* the returned BudgetAllocation entries sum to 100, within +/-1.
C4_PercentagesSumTo100 ==
    Returned("suggestAdvertisingPlatforms") =>
        /\ Len(result.budgetAllocation) >= 1
        /\ Abs(PercentageSum(result.budgetAllocation) - 100) <= 1

\* C4 witness: a budget in the top tier was split over three platforms,
\* 40 + 30 + 30.
C4_Witness ==
    /\ Returned("suggestAdvertisingPlatforms")
    /\ call.args.monthlyBudget >= 15000
    /\ Len(result.budgetAllocation) = 3
    /\ result.budgetAllocation[2].percentage = 30
    /\ PercentageSum(result.budgetAllocation) = 100

-----------------------------------------------------------------------------
(* MaterialCostEngine: calculateMaterialCosts *)

\* Units: prices in cents; quantities in tenths of a unit.
TenthsPerUnit == 10

\* Mock price database, in the order of its keys.
mockPriceDatabase ==
    <<
      [key |-> <<"f", "a", "b", "r", "i", "c">>,
       pricePerUnit |-> 899, supplier |-> "Joann Fabrics",
       bulkOption |-> Some([bulkQuantity |-> 10, bulkPrice |-> 749]),
       alternatives |-> Some(<<[supplier |-> "Fabric.com", pricePerUnit |-> 950], [supplier |-> "Amazon", pricePerUnit |-> 825]>>)],
      [key |-> <<"c", "o", "t", "t", "o", "n">>,
       pricePerUnit |-> 650, supplier |-> "Michaels",
       bulkOption |-> Some([bulkQuantity |-> 5, bulkPrice |-> 575]),
       alternatives |-> None],
      [key |-> <<"t", "h", "r", "e", "a", "d">>,
       pricePerUnit |-> 399, supplier |-> "Joann Fabrics",
       bulkOption |-> Some([bulkQuantity |-> 6, bulkPrice |-> 325]),
       alternatives |-> None],
      [key |-> <<"y", "a", "r", "n">>,
       pricePerUnit |-> 799, supplier |-> "Michaels",
       bulkOption |-> Some([bulkQuantity |-> 8, bulkPrice |-> 699]),
       alternatives |-> Some(<<[supplier |-> "Hobby Lobby", pricePerUnit |-> 749]>>)],
      [key |-> <<"w", "o", "o", "l">>,
       pricePerUnit |-> 1299, supplier |-> "Knit Picks",
       bulkOption |-> Some([bulkQuantity |-> 5, bulkPrice |-> 1150]),
       alternatives |-> None],
      [key |-> <<"b", "e", "a", "d", "s">>,
       pricePerUnit |-> 15, supplier |-> "Fire Mountain Gems",
       bulkOption |-> Some([bulkQuantity |-> 100, bulkPrice |-> 10]),
       alternatives |-> Some(<<[supplier |-> "Amazon", pricePerUnit |-> 18]>>)],
      [key |-> <<"w", "i", "r", "e">>,
       pricePerUnit |-> 999, supplier |-> "Fire Mountain Gems",
       bulkOption |-> Some([bulkQuantity |-> 5, bulkPrice |-> 850]),
       alternatives |-> None],
      [key |-> <<"c", "l", "a", "s", "p">>,
       pricePerUnit |-> 50, supplier |-> "Fire Mountain Gems",
       bulkOption |-> Some([bulkQuantity |-> 50, bulkPrice |-> 35]),
       alternatives |-> None],
      [key |-> <<"w", "o", "o", "d">>,
       pricePerUnit |-> 499, supplier |-> "Home Depot",
       bulkOption |-> Some([bulkQuantity |-> 10, bulkPrice |-> 425]),
       alternatives |-> None],
      [key |-> <<"p", "a", "i", "n", "t">>,
       pricePerUnit |-> 599, supplier |-> "Michaels",
       bulkOption |-> None,
       alternatives |-> Some(<<[supplier |-> "Blick Art", pricePerUnit |-> 650]>>)],
      [key |-> <<"g", "l", "u", "e">>,
       pricePerUnit |-> 450, supplier |-> "Michaels",
       bulkOption |-> Some([bulkQuantity |-> 4, bulkPrice |-> 399]),
       alternatives |-> None],
      [key |-> <<"p", "a", "p", "e", "r">>,
       pricePerUnit |-> 25, supplier |-> "Paper Source",
       bulkOption |-> Some([bulkQuantity |-> 100, bulkPrice |-> 18]),
       alternatives |-> None],
      [key |-> <<"c", "a", "r", "d", "s", "t", "o", "c", "k">>,
       pricePerUnit |-> 35, supplier |-> "Michaels",
       bulkOption |-> Some([bulkQuantity |-> 50, bulkPrice |-> 28]),
       alternatives |-> None],
      [key |-> <<"w", "a", "x">>,
       pricePerUnit |-> 250, supplier |-> "CandleScience",
       bulkOption |-> Some([bulkQuantity |-> 10, bulkPrice |-> 210]),
       alternatives |-> None],
      [key |-> <<"w", "i", "c", "k">>,
       pricePerUnit |-> 50, supplier |-> "CandleScience",
       bulkOption |-> Some([bulkQuantity |-> 50, bulkPrice |-> 35]),
       alternatives |-> None],
      [key |-> <<"f", "r", "a", "g", "r", "a", "n", "c", "e", " ", "o", "i", "l">>,
       pricePerUnit |-> 1599, supplier |-> "CandleScience",
       bulkOption |-> Some([bulkQuantity |-> 3, bulkPrice |-> 1399]),
       alternatives |-> None],
      [key |-> <<"s", "o", "a", "p", " ", "b", "a", "s", "e">>,
       pricePerUnit |-> 399, supplier |-> "Bramble Berry",
       bulkOption |-> Some([bulkQuantity |-> 10, bulkPrice |-> 325]),
       alternatives |-> None],
      [key |-> <<"e", "s", "s", "e", "n", "t", "i", "a", "l", " ", "o", "i", "l">>,
       pricePerUnit |-> 1299, supplier |-> "Bramble Berry",
       bulkOption |-> None,
       alternatives |-> None],
      [key |-> <<"c", "l", "a", "y">>,
       pricePerUnit |-> 1899, supplier |-> "Blick Art",
       bulkOption |-> Some([bulkQuantity |-> 5, bulkPrice |-> 1650]),
       alternatives |-> None],
      [key |-> <<"g", "l", "a", "z", "e">>,
       pricePerUnit |-> 1499, supplier |-> "Blick Art",
       bulkOption |-> None,
       alternatives |-> None],
      [key |-> <<"r", "e", "s", "i", "n">>,
       pricePerUnit |-> 3599, supplier |-> "Amazon",
       bulkOption |-> Some([bulkQuantity |-> 3, bulkPrice |-> 3199]),
       alternatives |-> None],
      [key |-> <<"r", "e", "s", "i", "n", " ", "d", "y", "e">>,
       pricePerUnit |-> 899, supplier |-> "Amazon",
       bulkOption |-> None,
       alternatives |-> None]
    >>

\* the lookup comparing the name as given, without toLowerCase
PriceInfoCaseSensitive(material) ==
    LET matches ==
            SelectSeq(mockPriceDatabase, LAMBDA e : e.key = material.name)
        found ==
            IF Len(matches) > 0
            THEN [pricePerUnit |-> matches[1].pricePerUnit,
                  supplier |-> matches[1].supplier,
                  bulkOption |-> matches[1].bulkOption,
                  alternatives |-> matches[1].alternatives]
            ELSE [pricePerUnit |-> 500, supplier |-> "Generic Supplier",
                  bulkOption |-> None, alternatives |-> None]
    IN IF material.preferredSupplier # None /\ material.preferredSupplier # Some("")
       THEN [found EXCEPT !.supplier = material.preferredSupplier[1]]
       ELSE found

\* Look up price (case-insensitive); the default fallback price otherwise.
PriceInfo(material) ==
    LET matches ==
            SelectSeq(mockPriceDatabase,
                      LAMBDA e : ToLowerCase(e.key) = ToLowerCase(material.name))
        found ==
            IF Len(matches) > 0
            THEN [pricePerUnit |-> matches[1].pricePerUnit,
                  supplier |-> matches[1].supplier,
                  bulkOption |-> matches[1].bulkOption,
                  alternatives |-> matches[1].alternatives]
            ELSE [pricePerUnit |-> 500, supplier |-> "Generic Supplier",
                  bulkOption |-> None, alternatives |-> None]
    IN \* a preferred supplier (a non-empty string) replaces the supplier
       IF material.preferredSupplier # None /\ material.preferredSupplier # Some("")
       THEN [found EXCEPT !.supplier = material.preferredSupplier[1]]
       ELSE found

\* the line priced at the bulk price once the quantity reaches the bulk tier
LineTotalCostAtBulkPrice(priceInfo, quantity) ==
    IF priceInfo.bulkOption # None
         /\ quantity >= priceInfo.bulkOption[1].bulkQuantity * TenthsPerUnit
    THEN RoundDiv(priceInfo.bulkOption[1].bulkPrice * quantity, TenthsPerUnit)
    ELSE RoundDiv(priceInfo.pricePerUnit * quantity, TenthsPerUnit)

\* Math.round(priceInfo.pricePerUnit * material.quantity * 100) / 100
LineTotalCost(priceInfo, quantity) ==
    RoundDiv(priceInfo.pricePerUnit * quantity, TenthsPerUnit)

\* The body of materials.map.
MaterialCostDetail(material) ==
    LET priceInfo == PriceInfo(material) IN
    [name |-> material.name,
     quantity |-> material.quantity,
     unit |-> material.unit,
     pricePerUnit |-> priceInfo.pricePerUnit,
     totalCost |-> LineTotalCost(priceInfo, material.quantity),
     supplier |-> priceInfo.supplier,
     bulkOption |->
        IF priceInfo.bulkOption = None THEN None
        ELSE Some([bulkQuantity |-> priceInfo.bulkOption[1].bulkQuantity,
                   bulkPrice |-> priceInfo.bulkOption[1].bulkPrice,
                   savingsPerUnit |->
                      priceInfo.pricePerUnit - priceInfo.bulkOption[1].bulkPrice]),
     alternativeSuppliers |->
        IF priceInfo.alternatives = None THEN None
        ELSE Some([i \in 1 .. Len(priceInfo.alternatives[1]) |->
                     [supplier |-> priceInfo.alternatives[1][i].supplier,
                      pricePerUnit |-> priceInfo.alternatives[1][i].pricePerUnit,
                      savings |-> priceInfo.pricePerUnit
                                    - priceInfo.alternatives[1][i].pricePerUnit]])]

\* m.bulkOption && m.quantity >= m.bulkOption.bulkQuantity
BulkEligible(m) ==
    /\ m.bulkOption # None
    /\ m.quantity >= m.bulkOption[1].bulkQuantity * TenthsPerUnit

\* m.alternativeSuppliers && m.alternativeSuppliers.some((a) => a.savings < 0)
HasCheaperAlternative(m) ==
    /\ m.alternativeSuppliers # None
    /\ \E i \in 1 .. Len(m.alternativeSuppliers[1]) :
          m.alternativeSuppliers[1][i].savings < 0

\* the reduce seeded with the first line instead of 0, so that it is
\* counted twice
MaterialsTotalCostFirstTwice(materialCostDetails) ==
    SumSeq([i \in 1 .. Len(materialCostDetails) |->
               materialCostDetails[i].totalCost])
        + (IF Len(materialCostDetails) > 0
           THEN materialCostDetails[1].totalCost ELSE 0)

\* materialCostDetails.reduce((sum, m) => sum + m.totalCost, 0); the line
\* totals are whole cents, which the final rounding keeps.
MaterialsTotalCost(materialCostDetails) ==
    SumSeq([i \in 1 .. Len(materialCostDetails) |->
               materialCostDetails[i].totalCost])

calculateMaterialCosts(materials) ==
    LET materialCostDetails ==
            [i \in 1 .. Len(materials) |-> MaterialCostDetail(materials[i])]
        totalCost == MaterialsTotalCost(materialCostDetails)
        \* savingsPerUnit * quantity summed, in tenths of a cent
        potentialSavings ==
            SumSeq([i \in 1 .. Len(materialCostDetails) |->
                       IF BulkEligible(materialCostDetails[i])
                       THEN materialCostDetails[i].bulkOption[1].savingsPerUnit
                               * materialCostDetails[i].quantity
                       ELSE 0])
        bulkEligible == SelectSeq(materialCostDetails, BulkEligible)
        cheaperAlternatives == SelectSeq(materialCostDetails, HasCheaperAlternative)
    IN [materials |-> materialCostDetails,
        totalCost |-> totalCost,
        potentialSavings |-> RoundDiv(potentialSavings, TenthsPerUnit),
        recommendations |->
            (IF Len(bulkEligible) > 0
             THEN <<[kind |-> "bulk", names |-> <<>>,
                     count |-> Len(bulkEligible)]>>
             ELSE <<>>)
            \o (IF Len(cheaperAlternatives) > 0
                THEN <<[kind |-> "alternatives",
                        names |-> [i \in 1 .. Len(cheaperAlternatives) |->
                                      cheaperAlternatives[i].name],
                        count |-> Len(cheaperAlternatives)]>>
                ELSE <<>>)
            \o (IF totalCost > 5000
                THEN <<[kind |-> "over50", names |-> <<>>, count |-> 0]>>
                ELSE <<>>)]

MaxMaterials == 2

\* Names as a caller may write them: catalog keys, keys in another case,
\* a key with a trailing blank and a name the catalog does not have.
MaterialNames ==
    {<<"w", "a", "x">>,
     <<"W", "a", "x">>,
     <<"W", "A", "X">>,
     <<"w", "a", "x", " ">>,
     <<"p", "a", "i", "n", "t">>,
     <<"y", "a", "r", "n">>,
     <<"u", "n", "o", "b", "t", "a", "i", "n", "i", "u", "m">>}

\* The quantities (in tenths) asked of each name.
QuantitiesOf(name) ==
    IF name = <<"w", "a", "x">> THEN {10, 95, 120}
    ELSE IF name = <<"y", "a", "r", "n">> THEN {10, 95}
    ELSE IF name = <<"u", "n", "o", "b", "t", "a", "i", "n", "i", "u", "m">>
         THEN {10, 120}
         ELSE {10}

MaterialChoices ==
    UNION {{[name |-> n, quantity |-> q, unit |-> "oz",
             preferredSupplier |-> None] : q \in QuantitiesOf(n)} :
           n \in MaterialNames}
    \cup {[name |-> <<"W", "a", "x">>, quantity |-> 120, unit |-> "oz",
           preferredSupplier |-> Some("Local Shop")],
          [name |-> <<"p", "a", "i", "n", "t">>, quantity |-> 10, unit |-> "oz",
           preferredSupplier |-> Some("")]}

MaterialRequests ==
    {[name |-> "calculateMaterialCosts", path |-> "chat",
      args |-> [materials |-> m]] :
        m \in SeqsUpTo(MaterialChoices, MaxMaterials)}

\* case "calculateMaterialCosts" of the dispatch
ServeCalculateMaterialCosts ==
    /\ pc = "called"
    /\ call.name = "calculateMaterialCosts"
    /\ result' = calculateMaterialCosts(call.args.materials)
    /\ pc' = "returned"
    /\ served' = Append(served, ToolMessage(call, result'))
    /\ UNCHANGED <<call, frame, invoked, files, messages>>

InitMaterials ==
    /\ call \in MaterialRequests
    /\ result = NoResult
    /\ pc = "called"
    /\ frame = <<>>
    /\ invoked = <<>>
    /\ files = NoFiles
    /\ served = <<>>
    /\ messages = InitialMessages

NextMaterials == ServeCalculateMaterialCosts
SpecMaterials == InitMaterials /\ [][NextMaterials]_vars

\* The example of the spec: 12 oz of wax.
WaxExample ==
    <<[name |-> <<"w", "a", "x">>, quantity |-> 120, unit |-> "oz",
       preferredSupplier |-> None]>>

\* C6 as stated: 12 oz of wax cost 25.20 (12 x 2.10) with potentialSavings
\* 4.80, and every line whose quantity reaches its bulk threshold is priced
\* at the bulk unit price.
C6_AsStated ==
    Returned("calculateMaterialCosts") =>
        /\ call.args.materials = WaxExample =>
             (result.totalCost = 2520 /\ result.potentialSavings = 480)
        /\ \A i \in 1 .. Len(result.materials) :
             LET m == result.materials[i] IN
             BulkEligible(m) =>
                m.totalCost = RoundDiv(m.bulkOption[1].bulkPrice * m.quantity, 10)

\* C6 as amended: 12 oz of wax cost 30.00 (12 x 2.50) with potentialSavings
\* 4.80; every line is priced at the regular unit price whether or not its
\* quantity reaches the bulk threshold, and the bulk price only shows in
\* potentialSavings, the sum of savingsPerUnit x quantity over those lines.
C6_TotalAtRegularPrice ==
    Returned("calculateMaterialCosts") =>
        /\ call.args.materials = WaxExample =>
             (result.totalCost = 3000 /\ result.potentialSavings = 480)
        /\ \A i \in 1 .. Len(result.materials) :
             LET m == result.materials[i] IN
             m.totalCost = RoundDiv(m.pricePerUnit * m.quantity, 10)
        /\ result.potentialSavings =
             RoundDiv(SumSeq([i \in 1 .. Len(result.materials) |->
                        LET m == result.materials[i] IN
                        IF m.bulkOption # None
                             /\ m.quantity >= 10 * m.bulkOption[1].bulkQuantity
                        THEN (m.pricePerUnit - m.bulkOption[1].bulkPrice) * m.quantity
                        ELSE 0]), 10)

\* C6 witness: the wax example was served: 30.00 in total, 4.80 to save.
C6_Witness ==
    /\ Returned("calculateMaterialCosts")
    /\ call.args.materials = WaxExample
    /\ result.totalCost = 3000
    /\ result.potentialSavings = 480
    /\ BulkEligible(result.materials[1])

\* Whether the catalog lists, for a requested material, an alternative
\* supplier with a unit price below the primary price.
CatalogHasCheaper(material) ==
    \E k \in 1 .. Len(mockPriceDatabase) :
        /\ ToLowerCase(mockPriceDatabase[k].key) = ToLowerCase(material.name)
        /\ mockPriceDatabase[k].alternatives # None
        /\ \E j \in 1 .. Len(mockPriceDatabase[k].alternatives[1]) :
              mockPriceDatabase[k].alternatives[1][j].pricePerUnit
                 < mockPriceDatabase[k].pricePerUnit

\* Whether the alternative-supplier recommendation names the material.
AlternativeRecommendedFor(material) ==
    \E i \in 1 .. Len(result.recommendations) :
        /\ result.recommendations[i].kind = "alternatives"
        /\ \E k \in 1 .. Len(result.recommendations[i].names) :
              result.recommendations[i].names[k] = material.name

\* C7: the alternative-supplier recommendation is emitted for a material
\* exactly when at least one of that material's alternative suppliers has a
\* unit price lower than the primary price, and not when every alternative
\* is more expensive.
C7_AlternativeWhenCheaper ==
    Returned("calculateMaterialCosts") =>
        \A i \in 1 .. Len(call.args.materials) :
            AlternativeRecommendedFor(call.args.materials[i])
               <=> CatalogHasCheaper(call.args.materials[i])

-----------------------------------------------------------------------------
(* Market price lookup: lib/tools/marketResearch.ts researchCompetitorPrices *)

\* Units: prices in cents, ratings in tenths of a star.
mockListings ==
    <<[price |-> 2999, sales |-> 450, reviews |-> 123, rating |-> 48],
      [price |-> 3500, sales |-> 280, reviews |-> 89, rating |-> 49],
      [price |-> 2450, sales |-> 620, reviews |-> 201, rating |-> 47],
      [price |-> 3200, sales |-> 150, reviews |-> 45, rating |-> 46],
      [price |-> 3999, sales |-> 890, reviews |-> 312, rating |-> 50],
      [price |-> 2750, sales |-> 340, reviews |-> 98, rating |-> 48],
      [price |-> 3100, sales |-> 220, reviews |-> 67, rating |-> 47],
      [price |-> 2899, sales |-> 510, reviews |-> 156, rating |-> 49],
      [price |-> 3350, sales |-> 380, reviews |-> 134, rating |-> 48],
      [price |-> 4500, sales |-> 95, reviews |-> 28, rating |-> 49]>>

\* [...prices].sort((a, b) => a - b)
RECURSIVE SortAscending(_)
SortAscending(s) ==
    IF s = <<>> THEN <<>>
    ELSE LET least == CHOOSE i \in 1 .. Len(s) :
                          \A j \in 1 .. Len(s) :
                              s[i] < s[j] \/ (s[i] = s[j] /\ i <= j)
         IN <<s[least]>>
              \o SortAscending([k \in 1 .. Len(s) - 1 |->
                                   IF k < least THEN s[k] ELSE s[k + 1]])

\* The median of lines 134-139, rounded to cents as the result reports it.
MedianCents(sortedPrices) ==
    IF Len(sortedPrices) % 2 = 0
    THEN RoundDiv(sortedPrices[Len(sortedPrices) \div 2]
                     + sortedPrices[Len(sortedPrices) \div 2 + 1], 2)
    ELSE sortedPrices[Len(sortedPrices) \div 2 + 1]

\* numberOfListings is between 1 and the ten mock listings (the plan asks
\* for 10); the sums divide by the number of listings taken.
researchCompetitorPrices(itemName, itemDescription, numberOfListings) ==
    LET competitors == SubSeq(mockListings, 1, numberOfListings)
        prices == [i \in 1 .. Len(competitors) |-> competitors[i].price]
        sortedPrices == SortAscending(prices)
        total == SumSeq(prices)
        highPerformers ==
            SelectSeq(competitors, LAMBDA c : c.sales > 400)
        highTotal ==
            SumSeq([i \in 1 .. Len(highPerformers) |-> highPerformers[i].price])
        \* avgHighPerformerPrice as a fraction num / den
        avgNum == IF Len(highPerformers) > 0 THEN highTotal ELSE total
        avgDen == IF Len(highPerformers) > 0 THEN Len(highPerformers)
                  ELSE Len(prices)
    IN [itemName |-> itemName,
        competitors |-> competitors,
        statistics |->
            [min |-> sortedPrices[1],
             max |-> sortedPrices[Len(sortedPrices)],
             average |-> RoundDiv(total, Len(prices)),
             median |-> MedianCents(sortedPrices)],
        suggestedPrice |->
            [low |-> RoundDiv(total * 85, Len(prices) * 100),
             mid |-> RoundDiv(total, Len(prices)),
             high |-> RoundDiv(total * 115, Len(prices) * 100)],
        insights |->
            [successfulFrom |-> RoundDiv(avgNum * 90, avgDen * 100),
             successfulTo |-> RoundDiv(avgNum * 110, avgDen * 100),
             ratedAtLeast48 |->
                 Len(SelectSeq(competitors, LAMBDA c : c.rating >= 48)),
             averageSales |->
                 RoundDiv(SumSeq([i \in 1 .. Len(competitors) |->
                                     competitors[i].sales]),
                          Len(competitors))]]

-----------------------------------------------------------------------------
(* PlanOrchestrator: lib/tools/businessPlan.ts generateBusinessPlan *)

\* Units of the input: etsyFees, shipping, labor and packaging in 24ths of a
\* cent; targetMonthlyIncome and marketingBudget in cents.  generateBusinessPlan
\* runs as a sequence of steps: pc is its position, frame holds its locals
\* (None until assigned) and invoked logs the engines it has called.

EmptyFrame ==
    [marketResearch |-> None, materialCosts |-> None, suggestedPrice |-> None,
     totalEtsyFees |-> None, costAnalysis |-> None, salesEstimates |-> None,
     advertisingPlan |-> None]

\* Step 1: Research competitor prices
PlanResearchCompetitorPrices ==
    /\ pc = "called"
    /\ call.name = "generateBusinessPlan"
    /\ call.path # "tool"
    /\ frame' = [frame EXCEPT !.marketResearch =
                    Some(researchCompetitorPrices(call.args.productName,
                                                  call.args.productDescription,
                                                  10))]
    /\ invoked' = Append(invoked, "researchCompetitorPrices")
    /\ pc' = "step2"
    /\ UNCHANGED <<call, result, files, served, messages>>

\* Step 2: Calculate material costs
PlanCalculateMaterialCosts ==
    /\ pc = "step2"
    /\ frame' = [frame EXCEPT !.materialCosts =
                    Some(calculateMaterialCosts(call.args.materials))]
    /\ invoked' = Append(invoked, "calculateMaterialCosts")
    /\ pc' = "step3"
    /\ UNCHANGED <<call, result, files, served, messages>>

\* Step 3: the suggested price, and the fee total summed from the fees the
\* caller passed in; no engine is called here.
PlanTotalEtsyFees ==
    /\ pc = "step3"
    /\ frame' = [frame EXCEPT
                    !.suggestedPrice =
                        Some(frame.marketResearch[1].suggestedPrice.mid),
                    !.totalEtsyFees =
                        Some(call.args.etsyFees.listingFee
                               + call.args.etsyFees.transactionFee
                               + call.args.etsyFees.paymentProcessingFee
                               + call.args.etsyFees.offsiteAdsFee)]
    /\ pc' = "step4"
    /\ UNCHANGED <<call, result, invoked, files, served, messages>>

\* no candidate volumes handed to the cost analysis
PlanSalesVolumesNone == <<>>

\* salesVolumes: [10, 25, 50, 100, 200]
PlanSalesVolumes == <<10, 25, 50, 100, 200>>

\* Step 4: Analyze business costs
PlanAnalyzeBusinessCosts ==
    /\ pc = "step4"
    /\ LET variableCosts ==
               [materials |-> frame.materialCosts[1].totalCost * Cent,
                etsyFees |-> frame.totalEtsyFees[1],
                shipping |-> call.args.shippingCostPerItem,
                labor |-> call.args.laborCostPerItem,
                packaging |-> call.args.packagingCostPerItem]
       IN frame' = [frame EXCEPT !.costAnalysis =
                       Some(analyzeBusinessCosts(call.args.fixedCosts,
                                                 variableCosts,
                                                 frame.suggestedPrice[1] * Cent,
                                                 PlanSalesVolumes))]
    /\ invoked' = Append(invoked, "analyzeBusinessCosts")
    /\ pc' = "step5"
    /\ UNCHANGED <<call, result, files, served, messages>>

\* Step 5: Estimate sales volume
PlanEstimateSalesVolume ==
    /\ pc = "step5"
    /\ frame' = [frame EXCEPT !.salesEstimates =
                    Some(estimateSalesVolume(call.args.productName,
                                             frame.suggestedPrice[1] * Cent,
                                             call.args.isNewShop,
                                             call.args.marketingBudget,
                                             Some("monthly")))]
    /\ invoked' = Append(invoked, "estimateSalesVolume")
    /\ pc' = "step6"
    /\ UNCHANGED <<call, result, files, served, messages>>

\* input.marketingBudget || 50
MarketingBudgetOrDefault(marketingBudget) ==
    IF marketingBudget = None \/ marketingBudget = Some(0)
    THEN 5000
    ELSE marketingBudget[1]

\* Step 6: Suggest advertising platforms
PlanSuggestAdvertisingPlatforms ==
    /\ pc = "step6"
    /\ frame' = [frame EXCEPT !.advertisingPlan =
                    Some(suggestAdvertisingPlatforms(
                            call.args.productCategory,
                            MarketingBudgetOrDefault(call.args.marketingBudget),
                            call.args.productDescription))]
    /\ invoked' = Append(invoked, "suggestAdvertisingPlatforms")
    /\ pc' = "assess"
    /\ UNCHANGED <<call, result, files, served, messages>>

\* salesEstimates.estimates.find((e) => e.scenario === "moderate")!.monthlySales
ModerateSalesEstimate(salesEstimates) ==
    LET i == CHOOSE k \in 1 .. Len(salesEstimates.estimates) :
                 /\ salesEstimates.estimates[k].scenario = "moderate"
                 /\ \A j \in 1 .. k - 1 :
                        salesEstimates.estimates[j].scenario # "moderate"
    IN salesEstimates.estimates[i].monthlySales

\* the reduce of lines 104-109 with <= for <: the later one on a tie
RECURSIVE ClosestProjectionLaterOnTie(_, _, _)
ClosestProjectionLaterOnTie(prev, rest, moderateSalesEstimate) ==
    IF rest = <<>> THEN prev
    ELSE ClosestProjectionLaterOnTie(
             IF Abs(rest[1].salesVolume - moderateSalesEstimate)
                  <= Abs(prev.salesVolume - moderateSalesEstimate)
             THEN rest[1] ELSE prev,
             Tail(rest), moderateSalesEstimate)

\* The reduce of lines 104-109: the projection closest to the moderate
\* estimate, the earlier one on a tie.
RECURSIVE ClosestProjection(_, _, _)
ClosestProjection(prev, rest, moderateSalesEstimate) ==
    IF rest = <<>> THEN prev
    ELSE ClosestProjection(
             IF Abs(rest[1].salesVolume - moderateSalesEstimate)
                  < Abs(prev.salesVolume - moderateSalesEstimate)
             THEN rest[1] ELSE prev,
             Tail(rest), moderateSalesEstimate)

\* An exception thrown out of a tool function.
Threw(error) == [threw |-> error]

\* reduce without an initial value throws a TypeError on an empty array.
RelevantProjection(projections, moderateSalesEstimate) ==
    IF Len(projections) = 0
    THEN Threw("TypeError")
    ELSE ClosestProjection(projections[1], Tail(projections),
                           moderateSalesEstimate)

\* input.targetMonthlyIncome || 500, in cents: an income of 0 is falsy
TargetIncomeOrDefault(targetMonthlyIncome) ==
    IF targetMonthlyIncome = None \/ targetMonthlyIncome = Some(0)
    THEN 50000
    ELSE targetMonthlyIncome[1]

\* lines 113-127 with the break-even test of the first branch left out
ViabilityScoreMarginOnly(costAnalysis, moderateSalesEstimate, estimatedMonthlyProfit, targetMonthlyIncome) ==
    IF costAnalysis.contributionMarginPercent < 3000
    THEN "Low"
    ELSE IF /\ costAnalysis.contributionMarginPercent > 5000
            /\ estimatedMonthlyProfit > TargetIncomeOrDefault(targetMonthlyIncome)
         THEN "High"
         ELSE "Moderate"

\* Determine viability score (lines 113-127); contributionMarginPercent is in
\* hundredths of a percent, estimatedMonthlyProfit in cents.
ViabilityScore(costAnalysis, moderateSalesEstimate, estimatedMonthlyProfit, targetMonthlyIncome) ==
    IF \/ costAnalysis.contributionMarginPercent < 3000
       \/ JsGreater(costAnalysis.breakEvenUnits, moderateSalesEstimate)
    THEN "Low"
    ELSE IF /\ costAnalysis.contributionMarginPercent > 5000
            /\ estimatedMonthlyProfit > TargetIncomeOrDefault(targetMonthlyIncome)
         THEN "High"
         ELSE "Moderate"

\* Key insights (lines 130-158) by kind, with the numbers they quote.
KeyInsights(marketResearch, materialCosts, suggestedPrice, estimatedMonthlyProfit) ==
    <<[kind |-> "marketRange", n |-> marketResearch.statistics.average],
      [kind |-> "materialShare",
       n |-> RoundDiv(materialCosts.totalCost * 100, suggestedPrice)],
      [kind |-> "breakEven", n |-> 0]>>
    \o (IF estimatedMonthlyProfit > 0
        THEN <<[kind |-> "profit", n |-> RoundDiv(estimatedMonthlyProfit, 100)]>>
        ELSE <<[kind |-> "loss",
                n |-> Abs(RoundDiv(estimatedMonthlyProfit, 100))]>>)
    \o (IF materialCosts.potentialSavings > 0
        THEN <<[kind |-> "bulkSavings", n |-> materialCosts.potentialSavings]>>
        ELSE <<>>)

\* Action items (lines 160-197) by kind.
ActionItems(marketingBudget, materialCosts) ==
    <<"listing", "photos", "description">>
    \o (IF marketingBudget # None /\ marketingBudget # Some(0)
             /\ marketingBudget[1] > 0
        THEN <<"allocateBudget">> ELSE <<"setAsideForAds">>)
    \o (IF materialCosts.potentialSavings > 0 THEN <<"buyInBulk">> ELSE <<>>)
    \o <<"firstSales", "trackCosts">>

\* Risks (lines 199-238) by kind.
Risks(input, costAnalysis, materialCosts, suggestedPrice, moderateSalesEstimate) ==
    (IF JsGreater(costAnalysis.breakEvenUnits, moderateSalesEstimate)
     THEN <<"breakEvenAboveEstimate">> ELSE <<>>)
    \o (IF costAnalysis.contributionMarginPercent < 3000
        THEN <<"lowMargin">> ELSE <<>>)
    \o (IF input.isNewShop THEN <<"newShop">> ELSE <<>>)
    \o (IF input.laborCostPerItem = None \/ input.laborCostPerItem = Some(0)
        THEN <<"noLabor">> ELSE <<>>)
    \o (IF materialCosts.totalCost * 100 > 50 * suggestedPrice
        THEN <<"materialsOverHalf">> ELSE <<>>)
    \o (IF input.marketingBudget = None \/ input.marketingBudget = Some(0)
             \/ input.marketingBudget[1] < 5000
        THEN <<"limitedMarketing">> ELSE <<>>)

\* Lines 98-257: the verdict and the assembled plan.  netProfit of a
\* projection is already in whole cents, which the final rounding keeps.
PlanAssess ==
    /\ pc = "assess"
    /\ LET marketResearch == frame.marketResearch[1]
           materialCosts == frame.materialCosts[1]
           suggestedPrice == frame.suggestedPrice[1]
           costAnalysis == frame.costAnalysis[1]
           salesEstimates == frame.salesEstimates[1]
           moderateSalesEstimate == ModerateSalesEstimate(salesEstimates)
           relevantProjection ==
               RelevantProjection(costAnalysis.projections, moderateSalesEstimate)
           estimatedMonthlyProfit == relevantProjection.netProfit
       IN result' =
            IF relevantProjection = Threw("TypeError")
            THEN relevantProjection
            ELSE
            [summary |->
                [productName |-> call.args.productName,
                 recommendedPrice |-> suggestedPrice,
                 breakEvenUnits |-> costAnalysis.breakEvenUnits,
                 estimatedMonthlySales |-> moderateSalesEstimate,
                 estimatedMonthlyProfit |-> RoundDiv(estimatedMonthlyProfit, 1),
                 viabilityScore |->
                     ViabilityScore(costAnalysis, moderateSalesEstimate,
                                    estimatedMonthlyProfit,
                                    call.args.targetMonthlyIncome),
                 keyInsights |->
                     KeyInsights(marketResearch, materialCosts, suggestedPrice,
                                 estimatedMonthlyProfit)],
             marketResearch |-> marketResearch,
             materialCosts |-> materialCosts,
             costAnalysis |-> costAnalysis,
             salesEstimates |-> salesEstimates,
             advertisingPlan |-> frame.advertisingPlan[1],
             actionItems |-> ActionItems(call.args.marketingBudget, materialCosts),
             risks |-> Risks(call.args, costAnalysis, materialCosts,
                             suggestedPrice, moderateSalesEstimate)]
    /\ pc' = "returned"
    /\ served' = Append(served, ToolMessage(call, result'))
    /\ UNCHANGED <<call, frame, invoked, files, messages>>

\* The fees of the calculator (thousandths of a cent) in 24ths of a cent.
FeesInCostUnits(fees) ==
    [listingFee |-> (fees.listingFee * Cent) \div MilliPerCent,
     transactionFee |-> (fees.transactionFee * Cent) \div MilliPerCent,
     paymentProcessingFee |-> (fees.paymentProcessingFee * Cent) \div MilliPerCent,
     offsiteAdsFee |-> (fees.offsiteAdsFee * Cent) \div MilliPerCent]

\* The fees a caller may pass: the calculator's fees for the suggested
\* price 32.75, its fees for a price of 20.00, or no fees at all.
PlanFeeChoices ==
    {FeesInCostUnits(etsyFeesCalculator(3275, "false")),
     FeesInCostUnits(etsyFeesCalculator(2000, "false")),
     [listingFee |-> 0, transactionFee |-> 0, paymentProcessingFee |-> 0,
      offsiteAdsFee |-> 0]}

PlanMaterialLists ==
    {<<>>,
     WaxExample,
     <<[name |-> <<"y", "a", "r", "n">>, quantity |-> 10, unit |-> "skein",
        preferredSupplier |-> None]>>}

PlanFixedCostLists ==
    {<<>>,
     <<[name |-> "studio", amount |-> 600 * Dollar, frequency |-> "monthly"]>>,
     <<[name |-> "tools", amount |-> 120 * Dollar, frequency |-> "annual"]>>}

PlanRequests ==
    {[name |-> "generateBusinessPlan", path |-> "chat",
      args |-> [productName |-> "candle",
                productDescription |-> None,
                productCategory |-> <<"c", "a", "n", "d", "l", "e", "s">>,
                materials |-> m,
                fixedCosts |-> f,
                etsyFees |-> e,
                isNewShop |-> new,
                targetMonthlyIncome |-> t,
                marketingBudget |-> b,
                shippingCostPerItem |-> None,
                laborCostPerItem |-> l,
                packagingCostPerItem |-> None]] :
        m \in PlanMaterialLists, f \in PlanFixedCostLists,
        e \in PlanFeeChoices, new \in BOOLEAN,
        t \in {None, Some(0), Some(100000)},
        b \in {None, Some(0), Some(10000), Some(35000)},
        l \in {None, Some(10 * Dollar)}}

InitPlan ==
    /\ call \in PlanRequests
    /\ result = NoResult
    /\ pc = "called"
    /\ frame = EmptyFrame
    /\ invoked = <<>>
    /\ files = NoFiles
    /\ served = <<>>
    /\ messages = InitialMessages

NextPlan ==
    \/ PlanResearchCompetitorPrices
    \/ PlanCalculateMaterialCosts
    \/ PlanTotalEtsyFees
    \/ PlanAnalyzeBusinessCosts
    \/ PlanEstimateSalesVolume
    \/ PlanSuggestAdvertisingPlatforms
    \/ PlanAssess

SpecPlan == InitPlan /\ [][NextPlan]_vars

\* The income threshold as the contract reads it: the default 500 only when
\* the caller left targetMonthlyIncome unspecified.
StatedThreshold(targetMonthlyIncome) ==
    IF targetMonthlyIncome = None THEN 50000 ELSE targetMonthlyIncome[1]

\* C2: viabilityScore is Low if contributionMarginPercent < 30 or
\* breakEvenUnits exceeds the moderate monthly sales estimate; otherwise High
\* if contributionMarginPercent > 50 and the expected monthly profit exceeds
\* the caller's targetMonthlyIncome (500 only when none was specified);
\* otherwise Moderate.
C2_ViabilityScore ==
    Returned("generateBusinessPlan") =>
        LET costAnalysis == result.costAnalysis
            moderate == result.summary.estimatedMonthlySales
            profit == result.summary.estimatedMonthlyProfit
        IN result.summary.viabilityScore =
             IF \/ costAnalysis.contributionMarginPercent < 3000
                \/ JsGreater(costAnalysis.breakEvenUnits, moderate)
             THEN "Low"
             ELSE IF /\ costAnalysis.contributionMarginPercent > 5000
                     /\ profit > StatedThreshold(call.args.targetMonthlyIncome)
                  THEN "High"
                  ELSE "Moderate"

\* The total of the fees the calculator returns, in thousandths of a cent.
FeeTotal(fees) ==
    fees.listingFee + fees.transactionFee + fees.paymentProcessingFee
        + fees.offsiteAdsFee

\* C3: for one plan request the engines are invoked exactly once each in the
\* order market price lookup, fee calculation, material cost, cost analysis,
\* sales estimate, ad allocation, and the fee total fed into cost analysis
\* is the fee calculator's output for the suggested mid price.
C3_EngineOrderAndFees ==
    Returned("generateBusinessPlan") =>
        /\ invoked = <<"researchCompetitorPrices", "etsyFeesCalculator",
                       "calculateMaterialCosts", "analyzeBusinessCosts",
                       "estimateSalesVolume", "suggestAdvertisingPlatforms">>
        /\ \E offsiteAds \in {"true", "false"} :
              frame.totalEtsyFees[1] * MilliPerCent =
                 FeeTotal(etsyFeesCalculator(frame.suggestedPrice[1], offsiteAds))
                    * Cent


\* C11: the totalCost of a MaterialCostsResult equals the sum of the
\* totalCost fields of its line items (within one cent), and each line's
\* totalCost is pricePerUnit * quantity rounded to cents.
C11_TotalIsSumOfLines ==
    Returned("calculateMaterialCosts") =>
        /\ Abs(result.totalCost
                 - SumSeq([i \in 1 .. Len(result.materials) |->
                              result.materials[i].totalCost])) <= 1
        /\ \A i \in 1 .. Len(result.materials) :
              LET m == result.materials[i]
                  exactTenths == m.pricePerUnit * m.quantity
              IN \* the nearest whole cent, a half rounding up
                 /\ 2 * TenthsPerUnit * m.totalCost - TenthsPerUnit
                       <= 2 * exactTenths
                 /\ 2 * exactTenths
                       < 2 * TenthsPerUnit * m.totalCost + TenthsPerUnit

\* C11 witness: two lines were priced, one of them (9.5 units of yarn at
\* 7.99) with a product that is not a whole number of cents.
C11_Witness ==
    /\ Returned("calculateMaterialCosts")
    /\ Len(result.materials) = 2
    /\ result.materials[1].totalCost > 0
    /\ (result.materials[2].pricePerUnit * result.materials[2].quantity)
          % TenthsPerUnit # 0
    /\ result.totalCost
          = result.materials[1].totalCost + result.materials[2].totalCost


\* The catalog entries whose key is the name up to letter case.
CatalogMatches(name) ==
    {k \in 1 .. Len(mockPriceDatabase) :
        ToLowerCase(mockPriceDatabase[k].key) = ToLowerCase(name)}

\* C12: calculateMaterialCosts prices every name: a name matching a catalog
\* key case-insensitively is priced from that entry, any other name at the
\* default 5.00 per unit from 'Generic Supplier' with no bulk option; a
\* preferredSupplier (a non-empty string) replaces the supplier label only
\* and leaves pricePerUnit, bulkOption and totalCost as they are without it.
C12_EveryNamePriced ==
    Returned("calculateMaterialCosts") =>
        /\ Len(result.materials) = Len(call.args.materials)
        /\ \A i \in 1 .. Len(call.args.materials) :
              LET material == call.args.materials[i]
                  m == result.materials[i]
                  preferred ==
                      /\ material.preferredSupplier # None
                      /\ material.preferredSupplier # Some("")
                  plain == MaterialCostDetail(
                               [material EXCEPT !.preferredSupplier = None])
              IN /\ m.name = material.name
                 /\ \A k \in CatalogMatches(material.name) :
                       /\ m.pricePerUnit = mockPriceDatabase[k].pricePerUnit
                       /\ (m.bulkOption = None)
                             = (mockPriceDatabase[k].bulkOption = None)
                       /\ m.bulkOption # None =>
                             /\ m.bulkOption[1].bulkQuantity
                                  = mockPriceDatabase[k].bulkOption[1].bulkQuantity
                             /\ m.bulkOption[1].bulkPrice
                                  = mockPriceDatabase[k].bulkOption[1].bulkPrice
                       /\ ~preferred => m.supplier = mockPriceDatabase[k].supplier
                 /\ CatalogMatches(material.name) = {} =>
                       /\ m.pricePerUnit = 500
                       /\ m.bulkOption = None
                       /\ ~preferred => m.supplier = "Generic Supplier"
                 /\ preferred => m.supplier = material.preferredSupplier[1]
                 /\ m.pricePerUnit = plain.pricePerUnit
                 /\ m.bulkOption = plain.bulkOption
                 /\ m.totalCost = plain.totalCost

\* C12 witness: one request priced a catalog name written in another case
\* under a preferred supplier, and a name the catalog does not have.
C12_Witness ==
    /\ Returned("calculateMaterialCosts")
    /\ Len(result.materials) = 2
    /\ call.args.materials[1].name = <<"W", "a", "x">>
    /\ call.args.materials[1].preferredSupplier = Some("Local Shop")
    /\ result.materials[1].supplier = "Local Shop"
    /\ result.materials[1].pricePerUnit = 250
    /\ CatalogMatches(call.args.materials[2].name) = {}
    /\ result.materials[2].supplier = "Generic Supplier"
    /\ result.materials[2].pricePerUnit = 500


-----------------------------------------------------------------------------
(* AdvertisingAllocator: tiers and platform selection *)

\* The names of the selected platforms other than Etsy Ads, in order.
ExternalPlatformNames(recommendedPlatforms) ==
    LET others ==
            SelectSeq(recommendedPlatforms, LAMBDA q : q.name # "Etsy Ads")
    IN [i \in 1 .. Len(others) |-> others[i].name]

\* C13: the budget is split by tier: below 50 a single allocation of 100% to
\* Etsy Ads; from 50 to below 150 exactly two allocations, 60% to Etsy Ads
\* and 40% to one external platform; from 150 on 40% to Etsy Ads and the
\* other 60% split evenly over all other selected platforms.
C13_BudgetTiers ==
    Returned("suggestAdvertisingPlatforms") =>
        LET budget == call.args.monthlyBudget
            alloc == result.budgetAllocation
            external == ExternalPlatformNames(result.recommendedPlatforms)
        IN /\ budget < 5000 =>
                /\ Len(alloc) = 1
                /\ alloc[1].platform = "Etsy Ads"
                /\ alloc[1].percentage = 100
                /\ alloc[1].allocatedBudget = budget
           /\ (5000 <= budget /\ budget < 15000) =>
                /\ Len(alloc) = 2
                /\ alloc[1].platform = "Etsy Ads"
                /\ alloc[1].percentage = 60
                /\ alloc[2].platform # "Etsy Ads"
                /\ \E i \in 1 .. Len(external) : alloc[2].platform = external[i]
                /\ alloc[2].percentage = 40
                /\ Abs(alloc[1].allocatedBudget + alloc[2].allocatedBudget
                         - budget) <= 1
           /\ budget >= 15000 =>
                /\ Len(alloc) = 1 + Len(external)
                /\ Len(external) >= 1
                /\ alloc[1].platform = "Etsy Ads"
                /\ alloc[1].percentage = 40
                /\ \A i \in 1 .. Len(external) :
                      /\ alloc[1 + i].platform = external[i]
                      /\ alloc[1 + i].allocatedBudget = alloc[2].allocatedBudget
                      /\ alloc[1 + i].percentage = alloc[2].percentage
                      /\ Abs(alloc[1 + i].percentage * Len(external) - 60)
                            <= Len(external)

\* C13 witness: a budget of exactly 50 was split 60/40 between Etsy Ads and
\* one external platform.
C13_Witness ==
    /\ Returned("suggestAdvertisingPlatforms")
    /\ call.args.monthlyBudget = 5000
    /\ Len(result.budgetAllocation) = 2
    /\ result.budgetAllocation[1].percentage = 60
    /\ result.budgetAllocation[1].allocatedBudget = 3000
    /\ result.budgetAllocation[2].percentage = 40
    /\ result.budgetAllocation[2].allocatedBudget = 2000


\* The platforms selected for a category, before the budget is looked at.
SelectedPlatforms(productCategory) ==
    LET names == RecommendedPlatformNames(productCategory)
    IN [i \in 1 .. Len(names) |-> AllPlatforms[names[i]]]

\* C14: recommendedPlatforms holds no platform whose minimumBudget exceeds
\* monthlyBudget unless no selected platform is affordable, and then it is
\* exactly [Etsy Ads]; otherwise it is Etsy Ads followed by the affordable
\* ones of the two platforms matched to the category.
C14_OnlyAffordablePlatforms ==
    Returned("suggestAdvertisingPlatforms") =>
        LET budget == call.args.monthlyBudget
            selected == SelectedPlatforms(call.args.productCategory)
            noneAffordable ==
                \A i \in 1 .. Len(selected) : selected[i].minimumBudget > budget
            platforms == result.recommendedPlatforms
        IN /\ Len(selected) = 3
           /\ selected[1] = AllPlatforms.etsyAds
           /\ noneAffordable => platforms = <<AllPlatforms.etsyAds>>
           /\ ~noneAffordable =>
                /\ \A i \in 1 .. Len(platforms) :
                      platforms[i].minimumBudget <= budget
                /\ platforms[1] = AllPlatforms.etsyAds
                /\ \A i \in 2 .. 3 :
                      (selected[i].minimumBudget <= budget)
                         <=> (\E k \in 2 .. Len(platforms) :
                                 platforms[k] = selected[i])
                /\ \A k \in 2 .. Len(platforms) :
                      \E i \in 2 .. 3 : platforms[k] = selected[i]
                /\ \A k, l \in 1 .. Len(platforms) :
                      k # l => platforms[k] # platforms[l]

\* C14 witness: with a budget of 7.00 a jewelry request got Etsy Ads and
\* Facebook & Instagram Ads (minimum 5) but not Pinterest Ads (minimum 10).
C14_Witness ==
    /\ Returned("suggestAdvertisingPlatforms")
    /\ call.args.productCategory = <<"J", "e", "w", "e", "l", "r", "y">>
    /\ call.args.monthlyBudget = 700
    /\ Len(result.recommendedPlatforms) = 2
    /\ result.recommendedPlatforms[1].name = "Etsy Ads"
    /\ result.recommendedPlatforms[2].name = "Facebook & Instagram Ads"


-----------------------------------------------------------------------------
(* SalesEstimator: quarterly and annual figures *)

\* C15 as stated: in every SalesEstimate, quarterlySales = 3 * monthlySales,
\* annualSales = 12 * monthlySales, quarterlyRevenue = 3 * monthlyRevenue and
\* annualRevenue = 12 * monthlyRevenue, for any competitorPrice.
C15_AsStated ==
    Returned("estimateSalesVolume") =>
        \A i \in 1 .. Len(result.estimates) :
            LET e == result.estimates[i] IN
            /\ e.quarterlySales = 3 * e.monthlySales
            /\ e.annualSales = 12 * e.monthlySales
            /\ e.quarterlyRevenue = 3 * e.monthlyRevenue
            /\ e.annualRevenue = 12 * e.monthlyRevenue

\* C15 as amended: quarterlySales = 3 * monthlySales and annualSales =
\* 12 * monthlySales always; the three revenues are each rounded to cents on
\* their own, so quarterlyRevenue = 3 * monthlyRevenue and annualRevenue =
\* 12 * monthlyRevenue hold exactly when competitorPrice is in whole cents,
\* and for any other price within 0.02 and 0.06.
C15_MultiplesOfMonthly ==
    Returned("estimateSalesVolume") =>
        \A i \in 1 .. Len(result.estimates) :
            LET e == result.estimates[i] IN
            /\ e.quarterlySales = 3 * e.monthlySales
            /\ e.annualSales = 12 * e.monthlySales
            /\ call.args.competitorPrice % Cent = 0 =>
                  /\ e.quarterlyRevenue = 3 * e.monthlyRevenue
                  /\ e.annualRevenue = 12 * e.monthlyRevenue
            /\ Abs(e.quarterlyRevenue - 3 * e.monthlyRevenue) <= 2
            /\ Abs(e.annualRevenue - 12 * e.monthlyRevenue) <= 6

\* C15 witness: at a price of 9.995 a scenario of 5 monthly sales reports
\* 49.98 a month and 149.93 a quarter, a cent less than three months.
C15_Witness ==
    /\ Returned("estimateSalesVolume")
    /\ call.args.competitorPrice % Cent # 0
    /\ result.estimates[1].monthlySales = 5
    /\ result.estimates[1].quarterlySales = 15
    /\ result.estimates[1].monthlyRevenue = 4998
    /\ result.estimates[1].quarterlyRevenue = 14993


-----------------------------------------------------------------------------
(* Empty candidate sets *)

\* The tool calls with an empty candidate set: no materials, no sales
\* volumes or no fixed costs, a budget below every platform minimum; and
\* every plan request.
EmptySetRequests ==
    {[name |-> "calculateMaterialCosts", path |-> "chat",
      args |-> [materials |-> <<>>]]}
    \cup {[name |-> "analyzeBusinessCosts", path |-> "chat",
           args |-> [fixedCosts |-> fs[1], variableCosts |-> v,
                     sellingPrice |-> p, salesVolumes |-> fs[2]]] :
            fs \in ({<<>>} \X SalesVolumeLists)
                      \cup ({<<>>} \cup {<<c>> : c \in FixedCostChoices}) \X {<<>>},
            v \in VariableCostChoices, p \in SellingPrices}
    \cup {r \in AdRequests :
            \A n \in DOMAIN AllPlatforms :
                r.args.monthlyBudget < AllPlatforms[n].minimumBudget}
    \cup PlanRequests

InitEmptySets ==
    /\ call \in EmptySetRequests
    /\ result = NoResult
    /\ pc = "called"
    /\ frame = EmptyFrame
    /\ invoked = <<>>
    /\ files = NoFiles
    /\ served = <<>>
    /\ messages = InitialMessages

NextEmptySets ==
    \/ ServeCalculateMaterialCosts
    \/ ServeAnalyzeBusinessCosts
    \/ ServeSuggestAdvertisingPlatforms
    \/ NextPlan

SpecEmptySets == InitEmptySets /\ [][NextEmptySets]_vars

\* C16: no engine raises on an empty candidate set: no materials give
\* totalCost 0 and potentialSavings 0; no salesVolumes give an empty
\* projections list and no fixedCosts give monthlyFixedCosts 0; a budget
\* below every platform minimum gives a single Etsy Ads allocation; and
\* generateBusinessPlan always returns a structured BusinessPlanResult.
C16_EmptySetsDegradeGracefully ==
    /\ pc = "returned" => "threw" \notin DOMAIN result
    /\ (Returned("calculateMaterialCosts") /\ call.args.materials = <<>>) =>
          /\ result.materials = <<>>
          /\ result.totalCost = 0
          /\ result.potentialSavings = 0
    /\ (Returned("analyzeBusinessCosts") /\ call.args.salesVolumes = <<>>) =>
          result.projections = <<>>
    /\ (Returned("analyzeBusinessCosts") /\ call.args.fixedCosts = <<>>) =>
          result.monthlyFixedCosts = 0
    /\ (Returned("suggestAdvertisingPlatforms")
          /\ \A n \in DOMAIN AllPlatforms :
                call.args.monthlyBudget < AllPlatforms[n].minimumBudget) =>
          /\ Len(result.budgetAllocation) = 1
          /\ result.budgetAllocation[1].platform = "Etsy Ads"
    /\ Returned("generateBusinessPlan") =>
          /\ DOMAIN result = {"summary", "marketResearch", "materialCosts",
                              "costAnalysis", "salesEstimates",
                              "advertisingPlan", "actionItems", "risks"}
          /\ result.summary.viabilityScore \in {"Low", "Moderate", "High"}
          /\ Len(result.costAnalysis.projections) = 5

\* C16 witness: a plan for a product with no materials and no fixed costs
\* was returned, with material costs of 0 and monthly fixed costs of 0.
C16_Witness ==
    /\ Returned("generateBusinessPlan")
    /\ call.args.materials = <<>>
    /\ call.args.fixedCosts = <<>>
    /\ result.materialCosts.totalCost = 0
    /\ result.materialCosts.potentialSavings = 0
    /\ result.costAnalysis.monthlyFixedCosts = 0
    /\ result.summary.viabilityScore \in {"Low", "Moderate", "High"}


-----------------------------------------------------------------------------
(* CostAnalysisEngine: amortization of the fixed costs *)

\* The amounts of the fixed costs of one of the frequencies, added up.
AmountsOfFrequency(fixedCosts, frequency) ==
    SumSeq([i \in 1 .. Len(fixedCosts) |->
                IF fixedCosts[i].frequency = frequency
                THEN fixedCosts[i].amount ELSE 0])

\* C20: the monthly figure of analyzeBusinessCosts is the sum of the amounts
\* of the monthly costs plus a twelfth of the amount of every annual and of
\* every one-time cost (reported rounded to the cent), and every projection
\* reports that same figure as its totalFixedCosts, whatever its sales volume.
C20_AmortizedMonthlyFigure ==
    Returned("analyzeBusinessCosts") =>
        LET fixedCosts == call.args.fixedCosts
            twelveTimesFigure ==
                12 * AmountsOfFrequency(fixedCosts, "monthly")
                    + AmountsOfFrequency(fixedCosts, "annual")
                    + AmountsOfFrequency(fixedCosts, "one-time")
        IN  /\ Abs(12 * Cent * result.monthlyFixedCosts - twelveTimesFigure)
                  <= 6 * Cent
            /\ \A i \in 1 .. Len(result.projections) :
                 result.projections[i].totalFixedCosts
                     = result.monthlyFixedCosts

\* C20 witness: an annual cost of 100 and a one-time cost of 120 make a
\* monthly figure of 18.33, charged at both sales volumes 10 and 50.
C20_Witness ==
    /\ Returned("analyzeBusinessCosts")
    /\ Len(call.args.fixedCosts) = 2
    /\ call.args.fixedCosts[1].frequency = "annual"
    /\ call.args.fixedCosts[1].amount = 100 * Dollar
    /\ call.args.fixedCosts[2].frequency = "one-time"
    /\ call.args.fixedCosts[2].amount = 120 * Dollar
    /\ call.args.salesVolumes = <<10, 50>>
    /\ result.monthlyFixedCosts = 1833
    /\ result.projections[1].totalFixedCosts = 1833
    /\ result.projections[2].totalFixedCosts = 1833


-----------------------------------------------------------------------------
(* A session: several tool calls served one after the other
   (01-function-calling.ts, the loop over responseMessage.tool_calls) *)

MaxCalls == 3

\* The tool calls of a session: one or two for each of the six engines.
SessionRequests ==
    {r \in FeeRequests :
        /\ r.path = "chat"
        /\ r.args.itemPrice = 3000
        /\ r.args.offsiteAds = "true"}
    \cup {r \in MaterialRequests : r.args.materials = WaxExample}
    \cup {[name |-> "analyzeBusinessCosts", path |-> "chat",
           args |-> ExampleCostArgs]}
    \cup {r \in SalesRequests :
            /\ r.args.competitorPrice = 2499 * Cent
            /\ r.args.marketingBudget = None
            /\ r.args.timeHorizon = None}
    \cup {r \in AdRequests :
            /\ r.args.productCategory = <<"J", "e", "w", "e", "l", "r", "y">>
            /\ r.args.monthlyBudget = 700
            /\ r.args.targetAudience = None}
    \cup {r \in PlanRequests :
            /\ r.args.materials = WaxExample
            /\ r.args.fixedCosts = <<>>
            /\ r.args.etsyFees.listingFee = 0
            /\ r.args.isNewShop
            /\ r.args.targetMonthlyIncome = None
            /\ r.args.marketingBudget = None
            /\ r.args.laborCostPerItem = None}

\* for (const toolCall of responseMessage.tool_calls): the next tool call
\* is taken up once the previous one has returned; the locals of the
\* previous call are gone.
NextToolCall ==
    /\ pc = "returned"
    /\ Len(served) < MaxCalls
    /\ call' \in SessionRequests
    /\ pc' = "called"
    /\ result' = NoResult
    /\ frame' = EmptyFrame
    /\ invoked' = <<>>
    /\ UNCHANGED <<files, served, messages>>

InitSession ==
    /\ call \in SessionRequests
    /\ result = NoResult
    /\ pc = "called"
    /\ frame = EmptyFrame
    /\ invoked = <<>>
    /\ files = NoFiles
    /\ served = <<>>
    /\ messages = InitialMessages

NextSession ==
    \/ ServeEtsyFees
    \/ ServeCalculateMaterialCosts
    \/ ServeAnalyzeBusinessCosts
    \/ ServeEstimateSalesVolume
    \/ ServeSuggestAdvertisingPlatforms
    \/ NextPlan
    \/ NextToolCall

SpecSession == InitSession /\ [][NextSession]_vars

\* Any two served calls of the same engine with the same arguments returned
\* the same value.
SameInputSameOutput ==
    \A i, j \in 1 .. Len(served) :
        (served[i].name = served[j].name /\ served[i].args = served[j].args)
            => served[i].result = served[j].result

-----------------------------------------------------------------------------
(* Persistence: lib/tools/dataManagement.ts saveBusinessData, loadBusinessData *)

\* JSON values.  A string holds the sequence of its characters; an object
\* holds its fields; undefined is what a missing property reads as.
Str(text) == [kind |-> "string", value |-> text]
Obj(fields) == [kind |-> "object", fields |-> fields]
Null == [kind |-> "null"]
Undefined == [kind |-> "undefined"]

\* object.key, undefined when the object has no such property
Field(fields, key) == IF key \in DOMAIN fields THEN fields[key] ELSE Undefined

\* { ...first, ...second }: the properties of second win
Spread(first, second) ==
    [key \in DOMAIN first \cup DOMAIN second |->
        IF key \in DOMAIN second THEN second[key] ELSE first[key]]

\* What JSON.stringify keeps of a value: a property whose value is undefined
\* is left out, at every depth.
RECURSIVE JsonForm(_)
JsonForm(value) ==
    IF value.kind = "object"
    THEN Obj([key \in {k \in DOMAIN value.fields :
                           value.fields[k].kind # "undefined"} |->
                 JsonForm(value.fields[key])])
    ELSE value

\* JSON.stringify(value, null, 2): the text that denotes the JSON form
JsonStringify(value) == [json |-> JsonForm(value)]

\* JSON.parse(text)
JsonParse(text) == text.json

DotJson == <<".", "j", "s", "o", "n">>

\* String.prototype.endsWith
EndsWith(text, suffix) ==
    /\ Len(text) >= Len(suffix)
    /\ SubSeq(text, Len(text) - Len(suffix) + 1, Len(text)) = suffix

DigitCharacters == {"0", "1", "2", "3", "4", "5", "6", "7", "8", "9"}

\* .replace(/[^a-z0-9]/g, "-")
ReplaceNonAlphanumeric(text) ==
    [i \in 1 .. Len(text) |->
        IF \/ \E j \in 1 .. Len(LowerCase) : LowerCase[j] = text[i]
           \/ text[i] \in DigitCharacters
        THEN text[i] ELSE "-"]

\* .replace(/-+/g, "-")
RECURSIVE CollapseDashes(_)
CollapseDashes(text) ==
    IF Len(text) <= 1
    THEN text
    ELSE IF text[1] = "-" /\ text[2] = "-"
         THEN CollapseDashes(Tail(text))
         ELSE <<text[1]>> \o CollapseDashes(Tail(text))

\* .replace(/^-|-$/g, "")
TrimDashes(text) ==
    LET first == IF Len(text) > 0 /\ text[1] = "-" THEN 2 ELSE 1
        last == IF Len(text) > 0 /\ text[Len(text)] = "-"
                THEN Len(text) - 1 ELSE Len(text)
    IN  SubSeq(text, first, last)

\* Sanitize business name for filename
Sanitized(businessName) ==
    TrimDashes(CollapseDashes(ReplaceNonAlphanumeric(ToLowerCase(businessName))))

Returns(value) == [returned |-> value]

\* generateFilename: a custom filename, when given and not empty, with
\* ".json" appended unless it ends with it; otherwise the sanitized business
\* name and the day.  businessName.toLowerCase() throws on undefined.
generateFilename(businessName, customFilename, now) ==
    IF customFilename # None /\ customFilename[1] # <<>>
    THEN Returns(IF EndsWith(customFilename[1], DotJson)
                 THEN customFilename[1]
                 ELSE customFilename[1] \o DotJson)
    ELSE IF businessName.kind # "string"
         THEN Threw("TypeError")
         ELSE Returns(Sanitized(businessName.value) \o <<"-">> \o now.day
                          \o DotJson)

\* new Date().toISOString()
IsoString(now) == now.day \o <<"T">> \o now.time

\* fs.writeFileSync(filePath, content): the file is created or replaced
WriteFile(stored, fileName, content) ==
    [name \in DOMAIN stored \cup {fileName} |->
        IF name = fileName THEN content ELSE stored[name]]

SaveFailed(error) ==
    [success |-> FALSE, message |-> "Failed to save business data",
     error |-> error]

\* saveBusinessData on the files stored so far: the result and the files
\* afterwards.  Writing into a directory that does not exist throws.
saveBusinessData(businessName, data, filename, now, stored) ==
    LET businessData ==
            Obj(Spread(Spread([businessName |-> businessName],
                              IF data.kind = "object" THEN data.fields ELSE <<>>),
                       [createdAt |-> Str(IsoString(now)),
                        updatedAt |-> Str(IsoString(now))]))
        fileName == generateFilename(businessName, filename, now)
    IN  IF "threw" \in DOMAIN fileName
        THEN [result |-> SaveFailed(fileName.threw), files |-> stored]
        ELSE IF Includes(fileName.returned, <<"/">>)
             THEN [result |-> SaveFailed("ENOENT"), files |-> stored]
             ELSE [result |-> [success |-> TRUE,
                               message |-> "Business data saved successfully",
                               filePath |-> fileName.returned],
                   files |-> WriteFile(stored, fileName.returned,
                                       JsonStringify(businessData))]

\* loadBusinessData on the files stored so far
loadBusinessData(filename, stored) ==
    LET fileName == IF EndsWith(filename, DotJson)
                    THEN filename ELSE filename \o DotJson
    IN  IF fileName \notin DOMAIN stored
        THEN [success |-> FALSE,
              message |-> <<"File not found: ", fileName>>,
              error |-> "File does not exist"]
        ELSE [success |-> TRUE,
              data |-> JsonParse(stored[fileName]),
              message |-> "Business data loaded successfully"]


\* value ?? undefined
NullishToUndefined(value) == IF value.kind = "null" THEN Undefined ELSE value

\* The properties of data that zod passes with z.any().nullish()
AnyDataKeys ==
    {"marketResearch", "materialCosts", "costAnalysis", "salesEstimates",
     "advertisingPlan"}

\* cleanedData of saveBusinessDataLangChainTool: productInformation rebuilt
\* with nullish members turned to undefined, the five any-typed properties
\* copied unless null, notes copied unless nullish.
CleanedData(data) ==
    LET productInformation == Field(data.fields, "productInformation")
        keys ==
            {k \in AnyDataKeys : Field(data.fields, k).kind # "null"}
            \cup (IF productInformation.kind \in {"null", "undefined"}
                  THEN {} ELSE {"productInformation"})
            \cup (IF Field(data.fields, "notes").kind \in {"null", "undefined"}
                  THEN {} ELSE {"notes"})
    IN  Obj([k \in keys |->
                IF k = "productInformation"
                THEN Obj([itemName |->
                              Field(productInformation.fields, "itemName"),
                          description |->
                              NullishToUndefined(
                                  Field(productInformation.fields, "description")),
                          category |->
                              NullishToUndefined(
                                  Field(productInformation.fields, "category"))])
                ELSE Field(data.fields, k)])

\* The parameter record each program hands to saveBusinessData.
\*   "chat"      01-function-calling.ts: businessName, data, filename
\*   "tool"      03-langchain.ts: { businessData: args.businessData }, so
\*               businessName, data and filename are all undefined
\*   "langchain" saveBusinessDataLangChainTool (04-langgraph.ts): cleanedData
SaveParams(path, args) ==
    IF path = "tool"
    THEN [businessName |-> Undefined, data |-> Undefined, filename |-> None]
    ELSE IF path = "langchain"
         THEN [businessName |-> args.businessName,
               data |-> CleanedData(args.data), filename |-> args.filename]
         ELSE [businessName |-> args.businessName, data |-> args.data,
               filename |-> args.filename]

\* The clock: two moments of one day and one of the next.
Instants ==
    {[day |-> <<"d", "1">>, time |-> <<"0", "9">>],
     [day |-> <<"d", "1">>, time |-> <<"1", "7">>],
     [day |-> <<"d", "2">>, time |-> <<"0", "9">>]}

\* case "saveBusinessData" of the dispatch and the two LangChain wrappers
ServeSaveBusinessData ==
    /\ pc = "called"
    /\ call.name = "saveBusinessData"
    /\ \E now \in Instants :
         LET params == SaveParams(call.path, call.args)
             saved == saveBusinessData(params.businessName, params.data,
                                       params.filename, now, files)
         IN  /\ result' = saved.result
             /\ files' = saved.files
    /\ pc' = "returned"
    /\ served' = Append(served, ToolMessage(call, result'))
    /\ UNCHANGED <<call, frame, invoked, messages>>

\* case "loadBusinessData" of the dispatch; both LangChain wrappers pass the
\* filename on as it is
ServeLoadBusinessData ==
    /\ pc = "called"
    /\ call.name = "loadBusinessData"
    /\ result' = loadBusinessData(call.args.filename, files)
    /\ pc' = "returned"
    /\ served' = Append(served, ToolMessage(call, result'))
    /\ UNCHANGED <<call, frame, invoked, files, messages>>

WaxCo == <<"W", "a", "x", " ", "C", "o", "!">>
PlanName == <<"p", "l", "a", "n">>
CandleInformation ==
    Obj([itemName |-> Str(<<"c", "a", "n", "d", "l", "e">>),
         description |-> Null])

\* The saveBusinessData calls of a session.  On the chat path nothing checks
\* the arguments, and the tool schema leaves the properties of data open, so
\* data may carry a businessName of its own; zod strips such properties on
\* the other two paths.
SaveRequests ==
    {[name |-> "saveBusinessData", path |-> "chat",
      args |-> [businessName |-> Str(WaxCo), data |-> d, filename |-> f]] :
        d \in {Obj([notes |-> Str(<<"n", "1">>)]),
               Obj([productInformation |-> CandleInformation])},
        f \in {Some(PlanName), Some(PlanName \o DotJson)}}
    \cup
    {[name |-> "saveBusinessData", path |-> "chat",
      args |-> [businessName |-> Str(WaxCo),
                data |-> Obj([notes |-> Str(<<"n", "2">>),
                              businessName |-> Str(<<"O", "l", "d">>)]),
                filename |-> Some(PlanName)]],
     [name |-> "saveBusinessData", path |-> "chat",
      args |-> [businessName |-> Str(WaxCo), data |-> Obj(<<>>),
                filename |-> None]],
     [name |-> "saveBusinessData", path |-> "chat",
      args |-> [businessName |-> Str(<<"w", "a", "x", "-", "-", "c", "o">>),
                data |-> Obj([notes |-> Str(<<"n", "1">>)]),
                filename |-> Some(<<>>)]],
     [name |-> "saveBusinessData", path |-> "chat",
      args |-> [businessName |-> Str(WaxCo),
                data |-> Obj([notes |-> Str(<<"n", "1">>)]),
                filename |-> Some(<<"x", "/">> \o PlanName)]],
     [name |-> "saveBusinessData", path |-> "langchain",
      args |-> [businessName |-> Str(WaxCo),
                data |-> Obj([productInformation |-> CandleInformation,
                              marketResearch |-> Null]),
                filename |-> Some(PlanName)]],
     [name |-> "saveBusinessData", path |-> "tool",
      args |-> [businessName |-> Str(WaxCo),
                data |-> Obj([notes |-> Str(<<"n", "1">>)]),
                filename |-> Some(PlanName)]]}

LoadRequests ==
    {[name |-> "loadBusinessData", path |-> "chat", args |-> [filename |-> f]] :
        f \in {PlanName, PlanName \o DotJson, <<"q">>, <<>>,
               <<"w", "a", "x", "-", "c", "o", "-", "d", "1">>}}

DataRequests == SaveRequests \cup LoadRequests

\* The next tool call of the session is taken up.
NextDataCall ==
    /\ pc = "returned"
    /\ Len(served) < MaxCalls
    /\ call' \in DataRequests
    /\ pc' = "called"
    /\ result' = NoResult
    /\ UNCHANGED <<frame, invoked, files, served, messages>>

InitData ==
    /\ call \in DataRequests
    /\ result = NoResult
    /\ pc = "called"
    /\ frame = EmptyFrame
    /\ invoked = <<>>
    /\ files = NoFiles
    /\ served = <<>>
    /\ messages = InitialMessages

NextData == ServeSaveBusinessData \/ ServeLoadBusinessData \/ NextDataCall

SpecData == InitData /\ [][NextData]_vars


\* The file a filename names, with or without its .json suffix.
WithJsonSuffix(filename) ==
    IF EndsWith(filename, DotJson) THEN filename ELSE filename \o DotJson

\* The successful saves, among the calls served, that wrote the named file.
SavesTo(fileName) ==
    {i \in 1 .. Len(served) :
        /\ served[i].name = "saveBusinessData"
        /\ served[i].result.success
        /\ served[i].result.filePath = fileName}

\* The load that has just returned answers the latest successful save to its
\* file with that save's businessName and payload, and answers "not found"
\* when no save wrote its file.
LoadAnswersLatestSave ==
    LET saves == SavesTo(WithJsonSuffix(call.args.filename))
    IN  /\ saves = {} =>
              /\ ~result.success
              /\ result.message[1] = "File not found: "
        /\ saves # {} =>
              LET latest == CHOOSE i \in saves : \A j \in saves : j <= i
                  saved == SaveParams(served[latest].path, served[latest].args)
                  payload == JsonForm(saved.data).fields
              IN  (saved.filename # None /\ saved.filename[1] # <<>>) =>
                      /\ result.success
                      /\ result.data.fields.businessName = saved.businessName
                      /\ \A key \in DOMAIN payload :
                             result.data.fields[key] = payload[key]

\* C18: after saveBusinessData has succeeded for a given filename,
\* loadBusinessData with that filename, with or without the .json suffix,
\* returns success = true and data with the saved businessName and payload;
\* loadBusinessData for a filename never saved returns success = false with
\* a not-found message; and no load changes the stored files.
C18_RoundTrip ==
    [][(pc = "called" /\ call.name = "loadBusinessData") =>
           /\ files' = files
           /\ LoadAnswersLatestSave']_vars


-----------------------------------------------------------------------------
(* The three programs: 01-function-calling.ts ("chat"), 03-langchain.ts
   ("tool") and 04-langgraph.ts with the tools of lib/ ("langchain") *)

\* analyzeBusinessCostsTool of 03-langchain.ts passes monthlyFixedCosts,
\* itemPrice, materialCost, etsyFees, laborHours and hourlyRate; the function
\* reads fixedCosts, which is undefined, and fixedCosts.reduce throws.
ToolAnalyzeBusinessCosts ==
    /\ pc = "called"
    /\ call.name = "analyzeBusinessCosts"
    /\ call.path = "tool"
    /\ result' = Threw("TypeError")
    /\ pc' = "returned"
    /\ served' = Append(served, ToolMessage(call, result'))
    /\ UNCHANGED <<call, frame, invoked, files, messages>>

\* One entry of estimates when competitorPrice is undefined: every product
\* with it is NaN.
SalesEstimateWithoutPrice(scenario, monthlySales) ==
    [scenario |-> scenario,
     monthlySales |-> monthlySales,
     quarterlySales |-> monthlySales * 3,
     annualSales |-> monthlySales * 12,
     monthlyRevenue |-> NaN,
     quarterlyRevenue |-> NaN,
     annualRevenue |-> NaN]

\* estimateSalesVolume({ itemName, price, marketData }): competitorPrice and
\* isNewShop are undefined, marketingBudget and timeHorizon take their
\* defaults.  undefined is falsy, and undefined < 25, undefined < 50 and
\* undefined > 50 are all false.
estimateSalesVolumeWithoutPrice(itemName) ==
    LET base == BaseSales(FALSE) IN
    [itemName |-> itemName,
     estimatedPrice |-> Undefined,
     timeHorizon |-> "monthly",
     estimates |->
         <<SalesEstimateWithoutPrice("conservative",
                                     BoostedSales(base.conservative, 0)),
           SalesEstimateWithoutPrice("moderate", BoostedSales(base.moderate, 0)),
           SalesEstimateWithoutPrice("optimistic",
                                     BoostedSales(base.optimistic, 0))>>,
     keyFactors |->
         <<"establishedShop", "premium", "organicTraffic",
           "competition", "photos", "reviews", "seasonal">>,
     recommendations |-> <<"allocateAds", "photography", "seo">>,
     comparableShops |->
         <<[shopName |-> "CraftyCreations", monthlySales |-> 45,
            pricePoint |-> <<NaN, NaN>>],
           [shopName |-> "ArtisanMakers", monthlySales |-> 78,
            pricePoint |-> <<NaN, NaN>>],
           [shopName |-> "HandmadeByAlex", monthlySales |-> 32,
            pricePoint |-> <<NaN, NaN>>]>>]

\* estimateSalesVolumeTool of 03-langchain.ts
ToolEstimateSalesVolume ==
    /\ pc = "called"
    /\ call.name = "estimateSalesVolume"
    /\ call.path = "tool"
    /\ result' = estimateSalesVolumeWithoutPrice(call.args.itemName)
    /\ pc' = "returned"
    /\ served' = Append(served, ToolMessage(call, result'))
    /\ UNCHANGED <<call, frame, invoked, files, messages>>

\* suggestAdvertisingPlatformsTool of 03-langchain.ts passes itemName, budget
\* and targetAudience; productCategory is undefined and
\* productCategory.toLowerCase() throws.
ToolSuggestAdvertisingPlatforms ==
    /\ pc = "called"
    /\ call.name = "suggestAdvertisingPlatforms"
    /\ call.path = "tool"
    /\ result' = Threw("TypeError")
    /\ pc' = "returned"
    /\ served' = Append(served, ToolMessage(call, result'))
    /\ UNCHANGED <<call, frame, invoked, files, messages>>

\* generateBusinessPlanTool of 03-langchain.ts passes businessName, itemName,
\* itemDescription, marketResearch, costAnalysis and salesEstimate; step 1
\* runs on an undefined productName, and step 2 throws on materials.map,
\* materials being undefined.
ToolGenerateBusinessPlan ==
    /\ pc = "called"
    /\ call.name = "generateBusinessPlan"
    /\ call.path = "tool"
    /\ invoked' = invoked \o <<"researchCompetitorPrices", "calculateMaterialCosts">>
    /\ result' = Threw("TypeError")
    /\ pc' = "returned"
    /\ served' = Append(served, ToolMessage(call, result'))
    /\ UNCHANGED <<call, frame, files, messages>>

\* The tool calls given to the three programs.
ToolCallsToCompare ==
    {r \in FeeRequests :
        /\ r.path = "chat"
        /\ r.args.itemPrice \in {1, 3000}
        /\ r.args.offsiteAds \in {"true", "false", "absent"}}
    \cup {r \in MaterialRequests : Len(r.args.materials) <= 1}
    \cup {[name |-> "analyzeBusinessCosts", path |-> "chat",
           args |-> ExampleCostArgs]}
    \cup {r \in SalesRequests :
            /\ r.args.competitorPrice \in {2499 * Cent, 55 * Dollar}
            /\ r.args.marketingBudget = None
            /\ r.args.timeHorizon = None}
    \cup {r \in AdRequests :
            /\ r.args.productCategory = <<"J", "e", "w", "e", "l", "r", "y">>
            /\ r.args.monthlyBudget \in {700, 5000}
            /\ r.args.targetAudience = None}
    \cup {r \in PlanRequests :
            /\ r.args.materials = WaxExample
            /\ r.args.fixedCosts = <<>>
            /\ r.args.etsyFees.listingFee = 0
            /\ r.args.targetMonthlyIncome = None
            /\ r.args.marketingBudget = None
            /\ r.args.laborCostPerItem = None}
    \cup {[name |-> "saveBusinessData", path |-> "chat",
           args |-> [businessName |-> Str(WaxCo), data |-> d,
                     filename |-> Some(PlanName)]] :
            d \in {Obj([notes |-> Str(<<"n", "1">>)]),
                   Obj([productInformation |-> CandleInformation])}}
    \cup {r \in LoadRequests : r.args.filename \in {PlanName, <<"q">>}}

\* The same tool call is given to the next of the three programs.
NextProgram ==
    /\ pc = "returned"
    /\ \E path \in FeePaths :
         /\ \A i \in 1 .. Len(served) : served[i].path # path
         /\ call' = [call EXCEPT !.path = path]
    /\ pc' = "called"
    /\ result' = NoResult
    /\ frame' = EmptyFrame
    /\ invoked' = <<>>
    /\ UNCHANGED <<files, served, messages>>

InitPrograms ==
    /\ \E r \in ToolCallsToCompare, path \in FeePaths :
         call = [r EXCEPT !.path = path]
    /\ result = NoResult
    /\ pc = "called"
    /\ frame = EmptyFrame
    /\ invoked = <<>>
    /\ files = NoFiles
    /\ served = <<>>
    /\ messages = InitialMessages

NextPrograms ==
    \/ ServeEtsyFees
    \/ ServeCalculateMaterialCosts
    \/ ServeAnalyzeBusinessCosts
    \/ ServeEstimateSalesVolume
    \/ ServeSuggestAdvertisingPlatforms
    \/ NextPlan
    \/ ServeSaveBusinessData
    \/ ServeLoadBusinessData
    \/ ToolAnalyzeBusinessCosts
    \/ ToolEstimateSalesVolume
    \/ ToolSuggestAdvertisingPlatforms
    \/ ToolGenerateBusinessPlan
    \/ NextProgram

SpecPrograms == InitPrograms /\ [][NextPrograms]_vars

\* Two tool results are the same.  Sales estimates are compared by their
\* key factors, recommendations and sales counts before anything else.
SameToolResult(name, first, second) ==
    IF name = "estimateSalesVolume"
    THEN /\ first.keyFactors = second.keyFactors
         /\ first.recommendations = second.recommendations
         /\ \A i \in 1 .. 3 :
              first.estimates[i].monthlySales = second.estimates[i].monthlySales
         /\ first = second
    ELSE first = second

\* C19: for every tool name and the same tool-call arguments, the three
\* programs (function calling, LangChain, LangGraph) yield the same tool
\* result.
C19_SameResultInEveryProgram ==
    \A i, j \in 1 .. Len(served) :
        SameToolResult(served[i].name, served[i].result, served[j].result)


-----------------------------------------------------------------------------
(* PlanOrchestrator: the projection behind the expected profit *)

\* C21: the expected profit of a plan is the netProfit of the projection
\* whose salesVolume, among 10, 25, 50, 100 and 200, is nearest to the
\* moderate monthly sales estimate, and of two volumes equally near the one
\* that comes first in the list.
C21_NearestProjectionFirstOnTie ==
    (Returned("generateBusinessPlan") /\ "summary" \in DOMAIN result) =>
        LET projections == result.costAnalysis.projections
            moderate == result.summary.estimatedMonthlySales
            Distance(i) == Abs(projections[i].salesVolume - moderate)
        IN  /\ [i \in 1 .. Len(projections) |-> projections[i].salesVolume]
                   = <<10, 25, 50, 100, 200>>
            /\ moderate = result.salesEstimates.estimates[2].monthlySales
            /\ \E i \in 1 .. Len(projections) :
                 /\ \A j \in 1 .. Len(projections) : Distance(i) <= Distance(j)
                 /\ \A j \in 1 .. i - 1 : Distance(i) < Distance(j)
                 /\ result.summary.estimatedMonthlyProfit
                        = projections[i].netProfit

\* C21 witness: an established shop with a marketing budget of 350 has a
\* moderate estimate of 75, as far from 50 as from 100; the plan reports the
\* net profit at 50, which is not the net profit at 100.
C21_Witness ==
    /\ Returned("generateBusinessPlan")
    /\ "summary" \in DOMAIN result
    /\ result.summary.estimatedMonthlySales = 75
    /\ result.summary.estimatedMonthlyProfit
           = result.costAnalysis.projections[3].netProfit
    /\ result.costAnalysis.projections[3].netProfit
           # result.costAnalysis.projections[4].netProfit


-----------------------------------------------------------------------------
(* SalesEstimator: the time horizon *)

TimeHorizons == {None, Some("monthly"), Some("quarterly"), Some("annually")}

\* C22: timeHorizon only labels the result of estimateSalesVolume: the call
\* served returns what the same call with any other timeHorizon returns, in
\* every field but timeHorizon, which is the horizon given ("monthly" when
\* none is).
C22_TimeHorizonOnlyLabels ==
    Returned("estimateSalesVolume") =>
        /\ result.timeHorizon =
               (IF call.args.timeHorizon = None THEN "monthly"
                ELSE call.args.timeHorizon[1])
        /\ \A other \in TimeHorizons :
             LET otherResult ==
                     estimateSalesVolume(call.args.itemName,
                                         call.args.competitorPrice,
                                         call.args.isNewShop,
                                         call.args.marketingBudget, other)
             IN  /\ otherResult.itemName = result.itemName
                 /\ otherResult.estimatedPrice = result.estimatedPrice
                 /\ otherResult.estimates = result.estimates
                 /\ otherResult.keyFactors = result.keyFactors
                 /\ otherResult.recommendations = result.recommendations
                 /\ otherResult.comparableShops = result.comparableShops

\* C22 witness: a call for a new shop with timeHorizon "annually" and no
\* marketing budget returns the label "annually" and the monthly figures of
\* the moderate scenario, 15 sales a month and 180 a year.
C22_Witness ==
    /\ Returned("estimateSalesVolume")
    /\ call.args.timeHorizon = Some("annually")
    /\ call.args.isNewShop
    /\ call.args.marketingBudget = None
    /\ result.timeHorizon = "annually"
    /\ result.estimates[2].monthlySales = 15
    /\ result.estimates[2].annualSales = 180


-----------------------------------------------------------------------------
(* CostAnalysisEngine: break-even and the profitable volumes *)

\* The recommendations of the result that are of the kind given.
RecommendationsOfKind(kind) ==
    SelectSeq(result.recommendations, LAMBDA r : r.kind = kind)

\* C23: with a contribution margin above zero, every projection below
\* breakEvenUnits has netProfit <= 0 and every projection at or above it has
\* netProfit >= 0; the volume named in the "start making a profit"
\* recommendation is never below breakEvenUnits; and the "none profitable"
\* warning appears exactly when no projection has netProfit > 0.
C23_ProfitAgreesWithBreakEven ==
    (Returned("analyzeBusinessCosts") /\ result.contributionMargin > 0) =>
        /\ result.breakEvenUnits.kind = "finite"
        /\ \A i \in 1 .. Len(result.projections) :
             LET p == result.projections[i] IN
             /\ p.salesVolume < result.breakEvenUnits.n => p.netProfit <= 0
             /\ p.salesVolume >= result.breakEvenUnits.n => p.netProfit >= 0
        /\ \A i \in 1 .. Len(RecommendationsOfKind("firstProfitable")) :
             RecommendationsOfKind("firstProfitable")[i].n.n
                 >= result.breakEvenUnits.n
        /\ (Len(RecommendationsOfKind("noneProfitable")) > 0)
               <=> (\A i \in 1 .. Len(result.projections) :
                        result.projections[i].netProfit <= 0)
        /\ (Len(RecommendationsOfKind("firstProfitable")) = 0)
               <=> (Len(RecommendationsOfKind("noneProfitable")) = 1)

\* C23 witness: fixed costs of 120 a month and a margin of 13 break even at
\* 10 units; of the volumes 0, 1, 25 and 200 the one below it loses money,
\* 25 is profitable and is the volume the recommendation names.
C23_Witness ==
    /\ Returned("analyzeBusinessCosts")
    /\ result.contributionMargin = 1300
    /\ result.breakEvenUnits = Finite(10)
    /\ call.args.salesVolumes = <<0, 1, 25, 200>>
    /\ result.projections[2].netProfit < 0
    /\ result.projections[3].netProfit > 0
    /\ RecommendationsOfKind("firstProfitable")
           = <<[kind |-> "firstProfitable", n |-> Finite(25)]>>


-----------------------------------------------------------------------------
(* CostAnalysisEngine: the break-even recommendation without a margin *)

\* C24: analyzeBusinessCosts never emits the "break-even point is only N
\* items per month, which is very achievable" recommendation when the
\* contribution margin is zero or negative.
C24_NoAchievableWithoutMargin ==
    (Returned("analyzeBusinessCosts") /\ result.contributionMargin <= 0) =>
        Len(RecommendationsOfKind("breakEvenAchievable")) = 0


-----------------------------------------------------------------------------
(* PlanOrchestrator: the Low verdict and the two risks behind it *)

\* TRUE iff the risks of the returned plan include the risk given.
HasRisk(risk) ==
    \E i \in 1 .. Len(result.risks) : result.risks[i] = risk

\* C25: in every returned plan viabilityScore is "Low" exactly when the risks
\* hold the break-even-above-estimate risk or the low-margin risk; a plan
\* whose contribution margin is zero or negative is scored Low and carries
\* one of the two.
C25_LowIffRisk ==
    (Returned("generateBusinessPlan") /\ "summary" \in DOMAIN result) =>
        /\ (result.summary.viabilityScore = "Low")
               <=> (HasRisk("breakEvenAboveEstimate") \/ HasRisk("lowMargin"))
        /\ result.costAnalysis.contributionMargin <= 0 =>
               /\ result.summary.viabilityScore = "Low"
               /\ HasRisk("breakEvenAboveEstimate") \/ HasRisk("lowMargin")

\* C25 witness: a plan with a margin of 30 percent or more whose break-even
\* count is above the moderate estimate: Low, with the break-even risk only.
C25_Witness ==
    /\ Returned("generateBusinessPlan")
    /\ "summary" \in DOMAIN result
    /\ result.summary.viabilityScore = "Low"
    /\ HasRisk("breakEvenAboveEstimate")
    /\ ~HasRisk("lowMargin")
    /\ result.costAnalysis.contributionMargin > 0

\* A plan without a positive margin: Low, with the low-margin risk.
C25_WitnessNoMargin ==
    /\ Returned("generateBusinessPlan")
    /\ "summary" \in DOMAIN result
    /\ result.costAnalysis.contributionMargin <= 0
    /\ result.summary.viabilityScore = "Low"
    /\ HasRisk("lowMargin")


-----------------------------------------------------------------------------
(* PlanOrchestrator: one marketing budget for the sales and the ads stage *)

\* The sum of the allocatedBudget fields of an allocation.
AllocatedSum(budgetAllocation) ==
    SumSeq([i \in 1 .. Len(budgetAllocation) |->
               budgetAllocation[i].allocatedBudget])

\* C26: in a returned plan advertisingPlan.totalBudget is the marketing
\* budget estimateSalesVolume was given, 0 when the input names none or 0,
\* and a plan without a marketing budget allocates no advertising money.
C26_SameMarketingBudget ==
    (Returned("generateBusinessPlan") /\ "summary" \in DOMAIN result) =>
        /\ result.advertisingPlan.totalBudget = OrZero(call.args.marketingBudget)
        /\ OrZero(call.args.marketingBudget) = 0 =>
               AllocatedSum(result.advertisingPlan.budgetAllocation) = 0


-----------------------------------------------------------------------------
(* AdvertisingAllocator: the whole budget is allocated *)

\* C27: for every category and every monthlyBudget >= 0 the allocatedBudget
\* fields sum to monthlyBudget within one cent per entry, and every
\* allocation names a platform of recommendedPlatforms.
C27_AllocationsSumToBudget ==
    (Returned("suggestAdvertisingPlatforms") /\ call.args.monthlyBudget >= 0) =>
        LET alloc == result.budgetAllocation IN
        /\ Len(alloc) >= 1
        /\ Abs(AllocatedSum(alloc) - call.args.monthlyBudget) <= Len(alloc)
        /\ \A i \in 1 .. Len(alloc) :
              \E k \in 1 .. Len(result.recommendedPlatforms) :
                  result.recommendedPlatforms[k].name = alloc[i].platform

\* C27 witness: 333.33 over three platforms: 133.33 to Etsy Ads and 100.00
\* to each of the two others.
C27_Witness ==
    /\ Returned("suggestAdvertisingPlatforms")
    /\ call.args.monthlyBudget = 33333
    /\ Len(result.budgetAllocation) = 3
    /\ result.budgetAllocation[1].allocatedBudget = 13333
    /\ result.budgetAllocation[2].allocatedBudget = 10000
    /\ result.budgetAllocation[3].allocatedBudget = 10000
    /\ \A i \in 1 .. 3 :
          result.recommendedPlatforms[i].name
              = result.budgetAllocation[i].platform


-----------------------------------------------------------------------------
(* AdvertisingAllocator: which catalog entries can be recommended *)

\* The names of the platforms recommended for at least one of the requests.
RecommendableNames ==
    UNION {{suggestAdvertisingPlatforms(r.args.productCategory,
                                        r.args.monthlyBudget,
                                        r.args.targetAudience)
                .recommendedPlatforms[k].name :
              k \in 1 .. Len(suggestAdvertisingPlatforms(
                                r.args.productCategory, r.args.monthlyBudget,
                                r.args.targetAudience).recommendedPlatforms)} :
           r \in AdRequests}

\* C28: every platform of the catalog can be recommended: for each of the
\* five entries (Etsy Ads, Google Ads, Facebook & Instagram Ads, Pinterest
\* Ads, TikTok Ads) some productCategory and monthlyBudget make
\* suggestAdvertisingPlatforms include it in recommendedPlatforms.
C28_EveryPlatformRecommendable ==
    Returned("suggestAdvertisingPlatforms") =>
        \A n \in DOMAIN AllPlatforms :
            AllPlatforms[n].name \in RecommendableNames

\* The four entries the category branches name are each recommended for
\* some request; TikTok Ads is recommended for none.
C28_AllButTikTok ==
    Returned("suggestAdvertisingPlatforms") =>
        /\ RecommendableNames
             = {AllPlatforms[n].name : n \in DOMAIN AllPlatforms \ {"tiktok"}}
        /\ \A k \in 1 .. Len(result.recommendedPlatforms) :
              result.recommendedPlatforms[k] # AllPlatforms.tiktok


-----------------------------------------------------------------------------
(* The function-calling agent: 01-function-calling.ts, chat() and main().
   A turn is one call of chat(); the code between two awaits runs without
   interruption, so each action below is one such stretch.  pc is "input"
   while main waits for the user and "awaitReply" while chat() waits for
   the model; result holds what the last chat() returned or raised. *)

\* The history is cut off at this many messages.
MaxMessages == 8

\* toolCall.function.arguments: the text of a JSON value, or a text that
\* JSON.parse rejects.
ArgumentsText(args) == [json |-> args]
MalformedArguments == [malformed |-> TRUE]

\* JSON.parse(toolCall.function.arguments)
ParseArguments(text) ==
    IF "json" \in DOMAIN text THEN Returns(text.json) ELSE Threw("SyntaxError")

\* JSON.stringify(result): the values served here hold numbers and strings
\* only, all of which the text keeps.
ResultText(value) == [json |-> value]

\* The tool calls a reply of the model may carry, without their ids.
FeesCall ==
    [type |-> "function", name |-> "etsyFeesCalculator",
     arguments |-> ArgumentsText([itemPrice |-> 3000, offsiteAds |-> "true"])]
MalformedCall ==
    [type |-> "function", name |-> "etsyFeesCalculator",
     arguments |-> MalformedArguments]
UnknownCall ==
    [type |-> "function", name |-> "convertCurrency",
     arguments |-> ArgumentsText([amount |-> 3000])]
MaterialsCall ==
    [type |-> "function", name |-> "calculateMaterialCosts",
     arguments |-> ArgumentsText([materials |-> WaxExample])]
NoMaterialsCall ==
    [type |-> "function", name |-> "calculateMaterialCosts",
     arguments |-> ArgumentsText([itemName |-> "candle"])]
CustomCall ==
    [type |-> "custom", name |-> "script", arguments |-> MalformedArguments]

ReplyToolCalls ==
    {<<FeesCall>>, <<UnknownCall, MaterialsCall>>, <<FeesCall, MalformedCall>>,
     <<NoMaterialsCall, FeesCall>>, <<CustomCall, UnknownCall>>}

\* The ids the API gives the tool calls of one reply: unique in the history.
WithIds(toolCalls, position) ==
    [i \in 1 .. Len(toolCalls) |->
        [id |-> <<position, i>>, type |-> toolCalls[i].type,
         name |-> toolCalls[i].name, arguments |-> toolCalls[i].arguments]]

\* { error: `Unknown function: ${functionName}` }
UnknownFunction(functionName) == [error |-> <<"Unknown function: ", functionName>>]

\* switch (functionName), for the functions the replies above name; the
\* other cases are the Serve actions of the engines.  materials.map raises
\* a TypeError when the arguments hold no materials.
Dispatch(functionName, args) ==
    IF functionName = "etsyFeesCalculator"
    THEN Returns(FeesViaPath("chat", args))
    ELSE IF functionName = "calculateMaterialCosts"
    THEN IF "materials" \in DOMAIN args
         THEN Returns(calculateMaterialCosts(args.materials))
         ELSE Threw("TypeError")
    ELSE Returns(UnknownFunction(functionName))

\* messages.push({ role: "tool", tool_call_id, content }) for the value a
\* tool function gave, unless it raised.
Answered(toolCall, args, value, state) ==
    IF "threw" \in DOMAIN value
    THEN [state EXCEPT !.raised = Some(value.threw)]
    ELSE [state EXCEPT
            !.messages = Append(@, [role |-> "tool",
                                    tool_call_id |-> toolCall.id,
                                    content |-> ResultText(value.returned)]),
            !.served = Append(@, [name |-> toolCall.name, path |-> "chat",
                                  args |-> args, result |-> value.returned])]

\* The switch on the parsed arguments, unless JSON.parse raised.
Parsed(toolCall, args, state) ==
    IF "threw" \in DOMAIN args
    THEN [state EXCEPT !.raised = Some(args.threw)]
    ELSE Answered(toolCall, args.returned,
                  Dispatch(toolCall.name, args.returned), state)

\* One pass of the body of the for loop: a tool call of another type is
\* skipped; a function tool call adds its tool message, or raises.
AfterToolCall(toolCall, state) ==
    IF toolCall.type # "function"
    THEN state
    ELSE Parsed(toolCall, ParseArguments(toolCall.arguments), state)

\* the for loop without the default case of the switch: an unknown
\* function gets no tool message
RECURSIVE ProcessToolCallsKnownOnly(_, _)
ProcessToolCallsKnownOnly(toolCalls, state) ==
    IF toolCalls = <<>> \/ state.raised # None
    THEN state
    ELSE ProcessToolCallsKnownOnly(
             Tail(toolCalls),
             IF toolCalls[1].name \in {"etsyFeesCalculator", "calculateMaterialCosts"}
             THEN AfterToolCall(toolCalls[1], state)
             ELSE state)

\* for (const toolCall of responseMessage.tool_calls): each call of type
\* "function" is parsed, dispatched and answered with a tool message; the
\* first exception leaves the loop with the messages pushed so far.
RECURSIVE ProcessToolCalls(_, _)
ProcessToolCalls(toolCalls, state) ==
    IF toolCalls = <<>> \/ state.raised # None
    THEN state
    ELSE ProcessToolCalls(Tail(toolCalls), AfterToolCall(toolCalls[1], state))

\* responseMessage.content || "I apologize, but I could not generate a response."
ContentOrApology(content) ==
    IF content = None \/ content = Some("") THEN "apology" ELSE content[1]

\* main: a user input that is not blank starts chat(), which pushes the
\* user message and sends the first request.
ChatStart ==
    /\ pc = "input"
    /\ Len(messages) + 2 <= MaxMessages
    /\ messages' = Append(messages, [role |-> "user"])
    /\ result' = NoResult
    /\ pc' = "awaitReply"
    /\ UNCHANGED <<call, frame, invoked, files, served>>

\* The model replies with tool calls: the reply is pushed, the tool calls
\* are processed and the next request is sent; an exception on the way
\* leaves chat() and is caught and reported by main.
ReplyWithToolCalls ==
    /\ pc = "awaitReply"
    /\ \E toolCalls \in ReplyToolCalls :
         /\ Len(messages) + 1 + Len(toolCalls) + 1 <= MaxMessages
         /\ \E after \in
                {ProcessToolCalls(
                    WithIds(toolCalls, Len(messages) + 1),
                    [messages |->
                         Append(messages,
                                [role |-> "assistant", content |-> None,
                                 tool_calls |->
                                     WithIds(toolCalls, Len(messages) + 1)]),
                     served |-> served, raised |-> None])} :
               /\ messages' = after.messages
               /\ served' = after.served
               /\ IF after.raised = None
                  THEN pc' = "awaitReply" /\ result' = result
                  ELSE pc' = "input" /\ result' = Threw(after.raised[1])
    /\ UNCHANGED <<call, frame, invoked, files>>

\* The model replies without tool calls: the reply is pushed and chat()
\* returns its content.
ReplyFinal ==
    /\ pc = "awaitReply"
    /\ \E content \in {None, Some("advice")} :
         /\ messages' = Append(messages, [role |-> "assistant",
                                          content |-> content,
                                          tool_calls |-> <<>>])
         /\ result' = Returns(ContentOrApology(content))
    /\ pc' = "input"
    /\ UNCHANGED <<call, frame, invoked, files, served>>

\* openai.chat.completions.create rejects: chat() raises, main reports it.
RequestFails ==
    /\ pc = "awaitReply"
    /\ result' = Threw("APIError")
    /\ pc' = "input"
    /\ UNCHANGED <<call, frame, invoked, files, served, messages>>

InitChat ==
    /\ call = NoCall
    /\ result = NoResult
    /\ pc = "input"
    /\ frame = <<>>
    /\ invoked = <<>>
    /\ files = NoFiles
    /\ served = <<>>
    /\ messages = InitialMessages

NextChat ==
    \/ ChatStart
    \/ ReplyWithToolCalls
    \/ ReplyFinal
    \/ RequestFails

SpecChat == InitChat /\ [][NextChat]_vars


\* The tool calls of type "function" among those of an assistant message.
FunctionCalls(toolCalls) == SelectSeq(toolCalls, LAMBDA c : c.type = "function")

\* The position of the last assistant message of the history.
LastAssistant ==
    CHOOSE k \in 1 .. Len(messages) :
        /\ messages[k].role = "assistant"
        /\ \A j \in k + 1 .. Len(messages) : messages[j].role # "assistant"

\* The number of tool messages of the history that carry the id given.
ToolMessagesFor(id) ==
    Cardinality({j \in 1 .. Len(messages) :
                    /\ messages[j].role = "tool"
                    /\ messages[j].tool_call_id = id})

\* C29: when chat() waits for a follow-up reply, the history ends with the
\* last assistant message followed by one tool message for each of its
\* function tool calls, in their order and with their ids, an unknown
\* function being answered with the "Unknown function" error value; and when
\* chat() has returned, the last message is a reply without tool calls,
\* whose content (or the apology) is what was returned.
C29_ToolMessagesBeforeFollowUp ==
    /\ (pc = "awaitReply" /\ messages[Len(messages)].role # "user") =>
          LET k == LastAssistant
              calls == FunctionCalls(messages[k].tool_calls)
          IN /\ Len(messages[k].tool_calls) > 0
             /\ Len(messages) = k + Len(calls)
             /\ \A i \in 1 .. Len(calls) :
                   /\ messages[k + i].role = "tool"
                   /\ messages[k + i].tool_call_id = calls[i].id
                   /\ ToolMessagesFor(calls[i].id) = 1
                   /\ calls[i].name \notin {"etsyFeesCalculator",
                                            "calculateMaterialCosts"} =>
                         messages[k + i].content
                             = ResultText(UnknownFunction(calls[i].name))
    /\ (pc = "input" /\ "returned" \in DOMAIN result) =>
          LET last == messages[Len(messages)] IN
          /\ last.role = "assistant"
          /\ last.tool_calls = <<>>
          /\ result.returned = ContentOrApology(last.content)

\* C29 witness: chat() waits for the follow-up reply after a reply that
\* called an unknown function and calculateMaterialCosts: two tool messages,
\* the first with the error value.
C29_Witness ==
    /\ pc = "awaitReply"
    /\ Len(messages) = 5
    /\ messages[3].role = "assistant"
    /\ messages[3].tool_calls = WithIds(<<UnknownCall, MaterialsCall>>, 3)
    /\ messages[4] = [role |-> "tool", tool_call_id |-> <<3, 1>>,
                      content |-> ResultText(UnknownFunction("convertCurrency"))]
    /\ messages[5].role = "tool"
    /\ messages[5].tool_call_id = <<3, 2>>
    /\ messages[5].content = ResultText(calculateMaterialCosts(WaxExample))

\* Every assistant message that carries tool calls is followed by one tool
\* message for each of its function tool calls.
WellFormedHistory ==
    \A k \in 1 .. Len(messages) :
        (messages[k].role = "assistant" /\ Len(messages[k].tool_calls) > 0) =>
            LET calls == FunctionCalls(messages[k].tool_calls) IN
            \A i \in 1 .. Len(calls) :
                /\ k + i <= Len(messages)
                /\ messages[k + i].role = "tool"
                /\ messages[k + i].tool_call_id = calls[i].id

\* C30: when chat() has raised (malformed tool-call arguments, a tool
\* function raising, a failed model request), every assistant message of the
\* shared history that carries tool_calls is still followed by one tool
\* message per call, so the next chat() starts from a well-formed history.
C30_FailedTurnLeavesWellFormedHistory ==
    (pc = "input" /\ "threw" \in DOMAIN result) => WellFormedHistory

\* A later turn runs on a history in which a tool call was never answered.
C30_LaterTurnOnBrokenHistory ==
    /\ pc = "awaitReply"
    /\ messages[Len(messages)].role = "user"
    /\ ~WellFormedHistory

=============================================================================
